---- MODULE Spec2Model ----
(***************************************************************************)
(* Model of the Kingshot battle calculator core (kingshotCore, kept in     *)
(* src/src/frontend/src/components/BattleResults.tsx): the seeded Monte    *)
(* Carlo win estimator estimateWinPct and the formation optimizer          *)
(* recommendFormation.                                                     *)
(*                                                                         *)
(* Numbers.  TLC integers are 32-bit signed, so                            *)
(*   - a 32-bit machine word of the generator is a pair <<hi, lo>> of      *)
(*     16-bit halves, with the bit operations computed on the halves;      *)
(*   - a JavaScript double is a triple <<sign, mant, exp>> standing for    *)
(*     sign * mant * 2^exp with a 15-bit mantissa (2^14 <= mant < 2^15),   *)
(*     or <<0,0,0>> for zero; every operation truncates its result to 15   *)
(*     bits where IEEE-754 rounds to 53.                                   *)
(***************************************************************************)
EXTENDS Integers, Sequences, FiniteSets, TLC

(***************************************************************************)
(* 32-bit words as <<hi, lo>>                                              *)
(***************************************************************************)
H16 == 65536

RECURSIVE Xor16(_, _)
Xor16(a, b) ==
  IF a = 0 THEN b
  ELSE IF b = 0 THEN a
  ELSE 2 * Xor16(a \div 2, b \div 2) + ((a + b) % 2)

RECURSIVE Or16(_, _)
Or16(a, b) ==
  IF a = 0 THEN b
  ELSE IF b = 0 THEN a
  ELSE 2 * Or16(a \div 2, b \div 2) + (IF (a % 2) + (b % 2) > 0 THEN 1 ELSE 0)

RECURSIVE Pow2(_)
Pow2(k) == IF k = 0 THEN 1 ELSE 2 * Pow2(k - 1)

WXor(a, b) == <<Xor16(a[1], b[1]), Xor16(a[2], b[2])>>

\* a | c for a small constant c < 2^16
WOrLow(a, c) == <<a[1], Or16(a[2], c)>>

\* a >>> k for 0 < k < 16
WShr(a, k) ==
  <<a[1] \div Pow2(k), (a[2] \div Pow2(k)) + (a[1] % Pow2(k)) * Pow2(16 - k)>>

WAdd(a, b) ==
  LET lo == a[2] + b[2]
  IN  <<(a[1] + b[1] + (lo \div H16)) % H16, lo % H16>>

\* Math.imul: the low 32 bits of the product, by 16x8-bit partial products
WMul(a, b) ==
  LET b0 == b[2] % 256
      b1 == b[2] \div 256
      p0 == a[2] * b0
      p1 == a[2] * b1
      lo == p0 + (p1 % 256) * 256
      c0 == b[1] % 256
      c1 == b[1] \div 256
      x  == (a[1] * b0 + ((a[1] * b1) % 256) * 256) % H16
      y  == (a[2] * c0 + ((a[2] * c1) % 256) * 256) % H16
      hi == (lo \div H16) + (p1 \div 256) + x + y
  IN  <<hi % H16, lo % H16>>

\* ToInt32/ToUint32 of an integer the model can hold
WFromInt(n) ==
  IF n >= 0 THEN <<(n \div H16) % H16, n % H16>>
  ELSE LET m == (0 - n) - 1
       IN  <<(H16 - 1) - ((m \div H16) % H16), (H16 - 1) - (m % H16)>>

(***************************************************************************)
(* mulberry32: one draw.  MbNext is the closure's new seed, MbOut the      *)
(* unsigned 32-bit numerator U of the returned fraction U / 2^32.          *)
(***************************************************************************)
MbIncrement == <<27947, 31221>>      \* 0x6D2B79F5

MbNext(seed) == WAdd(seed, MbIncrement)

\* The three mixing statements applied to the incremented seed t
MbMix1(t) == WMul(WXor(t, WShr(t, 15)), WOrLow(t, 1))
MbMix2(t) == WXor(t, WAdd(t, WMul(WXor(t, WShr(t, 7)), WOrLow(t, 61))))
MbMix3(t) == WXor(t, WShr(t, 14))

MbOut(seed) == MbMix3(MbMix2(MbMix1(MbNext(seed))))

\* The closure's variable seed is a double that += never wraps: an integer
\* hi * 2^16 + lo written <<hi, lo>> with 0 <= lo < 2^16 and hi any integer
WideAdd(a, b) ==
  LET lo == a[2] + b[2]
  IN  <<a[1] + b[1] + (lo \div H16), lo % H16>>

\* The bits a bit operator reads of such a double: its value modulo 2^32
ToUint32(w) == <<w[1] % H16, w[2]>>

\* The value of a word as the signed 32-bit integer ^ returns
Int32(w) == (IF w[1] >= 32768 THEN w[1] - H16 ELSE w[1]) * H16 + w[2]

\* Variant of MbUnsigned: the signed integer as it is
MbSigned(n) == <<n \div H16, n % H16>>

\* n >>> 0
MbUnsigned(n) == WFromInt(n)

\* One call of the closure whose seed is g: the new seed, and the numerator
\* num of the fraction num / 4294967296 it returns
MbDraw(g) ==
  [seed |-> WideAdd(g, MbIncrement),
   num  |-> MbUnsigned(Int32(MbMix3(MbMix2(MbMix1(ToUint32(WideAdd(g, MbIncrement)))))))]

\* rng() < pct/100, exactly: U / 2^32 < pct / 100  <=>  100 * U < pct * 2^32
\* (no multiple of 2^-32 lies between pct/100 and the double nearest to it)
DrawBelowPct(U, pct) == 100 * U[1] + ((100 * U[2]) \div H16) < pct * H16

(***************************************************************************)
(* Floating point numbers <<sign, mant, exp>>                              *)
(***************************************************************************)
MantLo == 16384      \* 2^14
MantHi == 32768      \* 2^15

FZero == <<0, 0, 0>>

Abs(n) == IF n < 0 THEN 0 - n ELSE n
Sgn(n) == IF n < 0 THEN -1 ELSE IF n > 0 THEN 1 ELSE 0

RECURSIVE FNorm(_, _, _)
FNorm(s, m, e) ==
  IF m = 0 \/ s = 0 THEN FZero
  ELSE IF m >= MantHi * 256 THEN FNorm(s, m \div 256, e + 8)
  ELSE IF m >= MantHi THEN FNorm(s, m \div 2, e + 1)
  ELSE IF m < MantLo \div 128 THEN FNorm(s, m * 256, e - 8)
  ELSE IF m < MantLo THEN FNorm(s, m * 2, e - 1)
  ELSE <<s, m, e>>

FInt(n) == FNorm(Sgn(n), Abs(n), 0)
FOne == FInt(1)
FNeg(a) == <<0 - a[1], a[2], a[3]>>

FMul(a, b) ==
  IF a[1] = 0 \/ b[1] = 0 THEN FZero
  ELSE FNorm(a[1] * b[1], (a[2] * b[2]) \div MantLo, a[3] + b[3] + 14)

\* b is not zero
FDiv(a, b) ==
  IF a[1] = 0 THEN FZero
  ELSE FNorm(a[1] * b[1], (a[2] * MantHi) \div b[2], a[3] - b[3] - 15)

FAdd(a, b) ==
  IF a[1] = 0 THEN b
  ELSE IF b[1] = 0 THEN a
  ELSE LET hi == IF a[3] >= b[3] THEN a ELSE b
           lo == IF a[3] >= b[3] THEN b ELSE a
           d  == hi[3] - lo[3]
       IN  IF d > 15 THEN hi
           ELSE LET v == hi[1] * hi[2] * Pow2(d) + lo[1] * lo[2]
                IN  FNorm(Sgn(v), Abs(v), lo[3])

FSub(a, b) == FAdd(a, FNeg(b))
FLt(a, b) == FSub(a, b)[1] < 0
FLe(a, b) == FSub(a, b)[1] <= 0
FMax(a, b) == IF FLt(a, b) THEN b ELSE a
FMin(a, b) == IF FLt(b, a) THEN b ELSE a
FRat(n, d) == FDiv(FInt(n), FInt(d))

\* floor(sqrt(n)) by bisection on [lo, hi)
RECURSIVE ISqrtIn(_, _, _)
ISqrtIn(n, lo, hi) ==
  IF hi - lo <= 1 THEN lo
  ELSE LET mid == (lo + hi) \div 2
       IN  IF mid * mid <= n THEN ISqrtIn(n, mid, hi) ELSE ISqrtIn(n, lo, mid)

\* a >= 0
FSqrt(a) ==
  IF a[1] <= 0 THEN FZero
  ELSE IF a[3] % 2 = 0
       THEN FNorm(1, ISqrtIn(a[2] * 65536, 32768, 46341), (a[3] \div 2) - 8)
       ELSE FNorm(1, ISqrtIn(a[2] * 32768, 23170, 32768), ((a[3] - 1) \div 2) - 7)

\* Fixed point with 14 fractional bits, used inside FLn and FExp
Ln2Fix == 11357      \* ln 2 * 2^14

\* Math.log for a > 0
FLn(a) ==
  LET m  == a[2]
      z  == ((m - MantLo) * MantLo) \div (m + MantLo)
      z2 == (z * z) \div MantLo
      t3 == (z * z2) \div MantLo
      t5 == (t3 * z2) \div MantLo
      t7 == (t5 * z2) \div MantLo
      v  == (a[3] + 14) * Ln2Fix + 2 * (z + (t3 \div 3) + (t5 \div 5) + (t7 \div 7))
  IN  FNorm(Sgn(v), Abs(v), -14)

\* floor(a * 2^14) for |a| < 2^16
FToFix(a) ==
  IF a[1] = 0 THEN 0
  ELSE IF a[3] + 14 >= 0 THEN a[1] * a[2] * Pow2(a[3] + 14)
  ELSE IF a[3] + 14 < -15 THEN (IF a[1] < 0 THEN -1 ELSE 0)
  ELSE (a[1] * a[2]) \div Pow2(0 - (a[3] + 14))

\* 2^k * e^(r / 2^14) for 0 <= r < Ln2Fix
ExpSeries(k, r) ==
  LET t2 == (r * r) \div (2 * MantLo)
      t3 == (t2 * r) \div (3 * MantLo)
      t4 == (t3 * r) \div (4 * MantLo)
      t5 == (t4 * r) \div (5 * MantLo)
      t6 == (t5 * r) \div (6 * MantLo)
  IN  FNorm(1, MantLo + r + t2 + t3 + t4 + t5 + t6, k - 14)

ExpFix(xf) == ExpSeries(xf \div Ln2Fix, xf - (xf \div Ln2Fix) * Ln2Fix)

\* Math.exp for |a| < 1024
FExp(a) == ExpFix(FToFix(a))

(***************************************************************************)
(* Math.round of an integer times a double fraction, exactly as the        *)
(* doubles evaluate it.  Math.round(v) is floor(v + 1/2); the double       *)
(* product can differ from the rational product only when the latter is    *)
(* a half-integer X + 1/2, and then the sign and size of the operand's     *)
(* representation error decide between X and X + 1.                        *)
(***************************************************************************)
RECURSIVE ILog2(_)
ILog2(n) == IF n <= 1 THEN 0 ELSE 1 + ILog2(n \div 2)

RECURSIVE PowMod(_, _, _)
PowMod(b, k, m) == IF k = 0 THEN 1 % m ELSE (b * PowMod(b, k - 1, m)) % m

RECURSIVE BinadeShift(_, _)
\* least c with pct * 2^c >= 100, i.e. pct/100 = mant * 2^-(52+c)
BinadeShift(pct, c) == IF pct * Pow2(c) >= 100 THEN c ELSE BinadeShift(pct, c + 1)

\* 100 * mant - pct * 2^(52+c): the error of the double nearest to pct/100,
\* in units of 2^-(52+c) / 100
PctErr(pct) ==
  LET z == (pct * PowMod(2, 52 + BinadeShift(pct, 0), 100)) % 100
  IN  IF z < 50 THEN 0 - z ELSE 100 - z

\* Math.round(m * (pct / 100)) for an integer m >= 0 and an integer pct
\* Variant of RoundPct: a share is never rounded below 1
RoundPctAtLeastOne(m, pct) == IF (m * pct) \div 100 < 1 THEN 1 ELSE (m * pct) \div 100

RoundPct(m, pct) ==
  LET T == m * pct
  IN  IF pct <= 0 \/ pct >= 100 \/ T % 100 # 50 THEN (T + 50) \div 100
      ELSE LET X == (T - 50) \div 100
               r == PctErr(pct)
               c == BinadeShift(pct, 0)
               b == ILog2(T \div 50) - 1
           IN  IF r < 0 /\ m * (0 - r) > 100 * Pow2(c + b - 1) THEN X ELSE X + 1

\* The value of `scale` after k additions of 0.1 to 1.1 is the double
\* (11 + k)/10 + ScaleErr(k) * 2^-55 / 10
ScaleErr(k) ==
  IF k <= 29 THEN 32 * (k + 1)
  ELSE IF k <= 69 THEN 960 - 128 * (k - 29)
  ELSE (0 - 3968) - 128 * (k - 70)

\* Math.round(m * scale) for the k-th scale of the scan, m >= 0
RoundScaled(m, k) ==
  LET T == m * (11 + k)
  IN  IF T % 10 # 5 \/ ScaleErr(k) >= 0 THEN (T + 5) \div 10
      ELSE LET X == (T - 5) \div 10
               b == ILog2(T \div 5) - 1
           IN  IF m * (0 - ScaleErr(k)) > 10 * Pow2(b + 2) THEN X ELSE X + 1

(***************************************************************************)
(* Catalogs and defaults                                                   *)
(***************************************************************************)
TroopTypes == <<"infantry", "cavalry", "archers">>

BATTLE_TYPES ==
  << [id |-> 1, intensity |-> FRat(95, 100),  extraSkillFactor |-> FRat(100, 100)],
     [id |-> 2, intensity |-> FRat(105, 100), extraSkillFactor |-> FRat(115, 100)],
     [id |-> 3, intensity |-> FRat(100, 100), extraSkillFactor |-> FRat(112, 100)],
     [id |-> 4, intensity |-> FRat(100, 100), extraSkillFactor |-> FRat(112, 100)] >>

\* DEFAULTS; targetWin is held in percent, sqrtPower in halves (1 = 0.5)
DefaultTargetWin == 55
MaxScale == 10
CoarseStepPct == 5
RefineStepPct == 1
RefineRadiusPct == 6
DefaultSqrtPower == 1

\* DEFAULTS.sims is 350 in the source.  The model runs every candidate of
\* the optimizer with DefaultSims trials.
DefaultSims == 3

MATCHUP ==
  [infantry |-> [infantry |-> FRat(100, 100), cavalry |-> FRat(112, 100), archers |-> FRat(95, 100)],
   cavalry  |-> [infantry |-> FRat(95, 100),  cavalry |-> FRat(100, 100), archers |-> FRat(112, 100)],
   archers  |-> [infantry |-> FRat(112, 100), cavalry |-> FRat(95, 100),  archers |-> FRat(100, 100)]]

(***************************************************************************)
(* rollRngMultipliers.  rng is the state of the generator; the result      *)
(* carries the generator's state after the call and, as a record of what   *)
(* happened, the gates that drew (gate name and generator state drawn      *)
(* from), in order.                                                        *)
(***************************************************************************)
\* One gate: when open it draws once, and acc becomes hitAcc on a hit
RollGate(acc, open, gate, pct, hitAcc) ==
  IF ~open THEN acc
  ELSE LET u == MbOut(acc.rng)
           a == IF DrawBelowPct(u, pct) THEN hitAcc ELSE acc
       IN  [a EXCEPT !.rng = MbNext(acc.rng),
                     !.draws = Append(acc.draws, [gate |-> gate, at |-> acc.rng])]

\* Variant of rollRngMultipliers: the cavalry TG gate reads tier.tier
rollRngMultipliersTierForTg(t, tier, rng) ==
  LET HitTank(a)  == [a EXCEPT !.tank = FMul(@, FRat(106, 100))]
      HitBack(a)  == [a EXCEPT !.cavBackline = FAdd(@, FRat(25, 100))]
      HitDmg2(a)  == [a EXCEPT !.dmg = FMul(@, FInt(2))]
      HitDmg15(a) == [a EXCEPT !.dmg = FMul(@, FRat(15, 10))]
      s0 == [dmg |-> FOne, tank |-> FOne, cavBackline |-> FZero, rng |-> rng, draws |-> <<>>]
      s1 == RollGate(s0, t = "infantry" /\ tier.tg >= 3,  "infantry_tg",  25, HitTank(s0))
      s2 == RollGate(s1, t = "cavalry" /\ tier.tier >= 7, "cavalry_tier", 20, HitBack(s1))
      s3 == RollGate(s2, t = "cavalry" /\ tier.tier >= 3, "cavalry_tg",   10, HitDmg2(s2))
      s4 == RollGate(s3, t = "archers" /\ tier.tier >= 7, "archers_tier", 10, HitDmg2(s3))
      s5 == RollGate(s4, t = "archers" /\ tier.tg >= 3,   "archers_tg",   20, HitDmg15(s4))
  IN  s5

rollRngMultipliers(t, tier, rng) ==
  LET HitTank(a)  == [a EXCEPT !.tank = FMul(@, FRat(106, 100))]
      HitBack(a)  == [a EXCEPT !.cavBackline = FAdd(@, FRat(25, 100))]
      HitDmg2(a)  == [a EXCEPT !.dmg = FMul(@, FInt(2))]
      HitDmg15(a) == [a EXCEPT !.dmg = FMul(@, FRat(15, 10))]
      s0 == [dmg |-> FOne, tank |-> FOne, cavBackline |-> FZero, rng |-> rng, draws |-> <<>>]
      s1 == RollGate(s0, t = "infantry" /\ tier.tg >= 3,  "infantry_tg",  25, HitTank(s0))
      s2 == RollGate(s1, t = "cavalry" /\ tier.tier >= 7, "cavalry_tier", 20, HitBack(s1))
      s3 == RollGate(s2, t = "cavalry" /\ tier.tg >= 3,   "cavalry_tg",   10, HitDmg2(s2))
      s4 == RollGate(s3, t = "archers" /\ tier.tier >= 7, "archers_tier", 10, HitDmg2(s3))
      s5 == RollGate(s4, t = "archers" /\ tier.tg >= 3,   "archers_tg",   20, HitDmg15(s4))
  IN  s5

(***************************************************************************)
(* Stat application                                                        *)
(***************************************************************************)
\* 1 + pct / 100
PctMult(pct) == FAdd(FOne, FDiv(FInt(pct), FInt(100)))

\* <<atk, dfn, leth, hp>>
unitStats(side, t) ==
  LET b == side.bonuses[t]
      s == side.special
  IN  << FMul(FMul(PctMult(b.atk), PctMult(s.squads_atk)), PctMult(s.pet_atk_bonus)),
         FMul(PctMult(b.dfn), PctMult(s.squads_dfn)),
         FMul(PctMult(b.leth), PctMult(s.squads_leth)),
         FMul(PctMult(b.hp), PctMult(s.squads_hp)) >>

\* Variant of applyDebuffs: the penalties are applied with their sign
applyDebuffsSigned(att, defender) ==
  LET s == att.special
  IN  << FMul(defender[1], PctMult(s.enemy_squads_atk)),
         FMul(defender[2], PctMult(s.enemy_squads_dfn)),
         FMul(defender[3], FSub(FOne, FDiv(FInt(s.enemy_leth_pen), FInt(100)))),
         FMul(defender[4], FSub(FOne, FDiv(FInt(s.enemy_hp_pen), FInt(100)))) >>

\* Variant of applyDebuffs: enemy_squads_atk lowers the defense as well
applyDebuffsAtkOnDfn(att, defender) ==
  LET s == att.special
  IN  << FMul(defender[1], PctMult(s.enemy_squads_atk)),
         FMul(FMul(defender[2], PctMult(s.enemy_squads_dfn)), PctMult(s.enemy_squads_atk)),
         FMul(defender[3], FSub(FOne, FDiv(FInt(Abs(s.enemy_leth_pen)), FInt(100)))),
         FMul(defender[4], FSub(FOne, FDiv(FInt(Abs(s.enemy_hp_pen)), FInt(100)))) >>

applyDebuffs(att, defender) ==
  LET s == att.special
  IN  << FMul(defender[1], PctMult(s.enemy_squads_atk)),
         FMul(defender[2], PctMult(s.enemy_squads_dfn)),
         FMul(defender[3], FSub(FOne, FDiv(FInt(Abs(s.enemy_leth_pen)), FInt(100)))),
         FMul(defender[4], FSub(FOne, FDiv(FInt(Abs(s.enemy_hp_pen)), FInt(100)))) >>

ratiosFromTroops(troops) ==
  LET total == troops.infantry + troops.cavalry + troops.archers
  IN  IF total <= 0
      THEN [infantry |-> FRat(1, 3), cavalry |-> FRat(1, 3), archers |-> FRat(1, 3), total |-> 0]
      ELSE [infantry |-> FRat(troops.infantry, total),
            cavalry  |-> FRat(troops.cavalry, total),
            archers  |-> FRat(troops.archers, total),
            total    |-> total]

(***************************************************************************)
(* Core "kills pressure" function                                          *)
(***************************************************************************)
Eps9 == FRat(1, 1000000000)                               \* 1e-9
Eps12 == FMul(FRat(1, 1000000), FRat(1, 1000000))         \* 1e-12

\* Math.pow(n, sqrtPower) for an integer n > 0 and sqrtPower = p2 / 2
RECURSIVE FPowInt(_, _)
FPowInt(a, k) == IF k = 0 THEN FOne ELSE FMul(a, FPowInt(a, k - 1))

PowHalves(n, p2) ==
  IF p2 % 2 = 0 THEN FPowInt(FInt(n), p2 \div 2)
  ELSE FMul(FPowInt(FInt(n), p2 \div 2), FSqrt(FInt(n)))

\* Variant of killsDenom: the floor is half of 1e-9
killsDenomHalfFloor(def, hp, tankMult) ==
  FMax(FMul(FMul(def, hp), tankMult), FMul(Eps9, FRat(1, 2)))

\* const denom = Math.max(def * hp * tankMult, 1e-9)
killsDenom(def, hp, tankMult) == FMax(FMul(FMul(def, hp), tankMult), Eps9)

killsPressure(n, atk, leth, def, hp, dmgMult, tankMult, sqrtPower) ==
  IF n <= 0 THEN FZero
  ELSE LET scale == PowHalves(n, sqrtPower)
           denom == killsDenom(def, hp, tankMult)
       IN  FDiv(FMul(FMul(scale, FMul(atk, leth)), dmgMult), denom)

\* Variant of TargetWeights: the shift is taken whole from infantry
TargetWeightsWholeShift(enemyR, t, cavBackline) ==
  LET wInf == FMul(enemyR.infantry, MATCHUP[t].infantry)
      wCav == FMul(enemyR.cavalry, MATCHUP[t].cavalry)
      wArc == FMul(enemyR.archers, MATCHUP[t].archers)
      take == IF t = "cavalry" /\ FLt(FZero, cavBackline) THEN cavBackline ELSE FZero
  IN  [infantry |-> FSub(wInf, take), cavalry |-> wCav, archers |-> FAdd(wArc, take)]

\* Target weights = enemy exposure * matchup advantage, with the cavalry
\* backline shift applied
TargetWeights(enemyR, t, cavBackline) ==
  LET wInf == FMul(enemyR.infantry, MATCHUP[t].infantry)
      wCav == FMul(enemyR.cavalry, MATCHUP[t].cavalry)
      wArc == FMul(enemyR.archers, MATCHUP[t].archers)
      take == IF t = "cavalry" /\ FLt(FZero, cavBackline) THEN FMin(wInf, cavBackline) ELSE FZero
  IN  [infantry |-> FSub(wInf, take), cavalry |-> wCav, archers |-> FAdd(wArc, take)]

\* const sum = wInf + wCav + wArc
WeightSum(w) == FAdd(FAdd(w.infantry, w.cavalry), w.archers)

\* wInf /= sum; wCav /= sum; wArc /= sum, for sum > 0
NormWeights(w, sum) ==
  [infantry |-> FDiv(w.infantry, sum), cavalry |-> FDiv(w.cavalry, sum),
   archers |-> FDiv(w.archers, sum)]

\* wInf * kInf + wCav * kCav + wArc * kArc for the normalised weights
WeightedKills(w, sum, n, us, dStats, dmgMult, tankMult, sqrtPower) ==
  FAdd(FAdd(FMul(FDiv(w.infantry, sum),
                 killsPressure(n, us[1], us[3], dStats.infantry[2], dStats.infantry[4], dmgMult, tankMult, sqrtPower)),
            FMul(FDiv(w.cavalry, sum),
                 killsPressure(n, us[1], us[3], dStats.cavalry[2], dStats.cavalry[4], dmgMult, tankMult, sqrtPower))),
       FMul(FDiv(w.archers, sum),
            killsPressure(n, us[1], us[3], dStats.archers[2], dStats.archers[4], dmgMult, tankMult, sqrtPower)))

\* const sum = wInf + wCav + wArc; if (sum <= 0) continue; ...; total += ...
AddWeighted(acc, w, sum, n, us, dStats, dmgMult, tankMult, sqrtPower) ==
  IF FLe(sum, FZero) THEN acc
  ELSE [acc EXCEPT !.total = FAdd(@, WeightedKills(w, sum, n, us, dStats, dmgMult, tankMult, sqrtPower))]

AddRolled(acc, n, us, dStats, dmgMult, tankMult, sqrtPower, w) ==
  AddWeighted(acc, w, WeightSum(w),
              n, us, dStats, dmgMult, tankMult, sqrtPower)

\* The loop body once the abilities are rolled: proc is what
\* rollRngMultipliers returned
AddPressure(acc, n, us, enemyR, dStats, t, sqrtPower, skillFactor, proc) ==
  AddRolled([acc EXCEPT !.rng = proc.rng, !.draws = acc.draws \o proc.draws],
            n, us, dStats, FMul(proc.dmg, skillFactor), proc.tank, sqrtPower,
            TargetWeights(enemyR, t, proc.cavBackline))

\* Variant of PressureOfType: the abilities are rolled before the troop
\* count is looked at
PressureOfTypeRollFirst(att, enemyR, dStats, acc, t, sqrtPower, skillFactor) ==
  AddPressure(acc, att.troops[t], unitStats(att, t), enemyR, dStats, t,
              sqrtPower, skillFactor, rollRngMultipliers(t, att.tier, acc.rng))

\* One pass of the loop over the attacker's troop types: acc is
\* [total, rng, draws], the running pressure, the generator and its draws
PressureOfType(att, enemyR, dStats, acc, t, sqrtPower, skillFactor) ==
  IF att.troops[t] <= 0 THEN acc
  ELSE AddPressure(acc, att.troops[t], unitStats(att, t), enemyR, dStats, t,
                   sqrtPower, skillFactor, rollRngMultipliers(t, att.tier, acc.rng))

\* The order in which the loop visits the attacker's troop types
PressureOrder == <<"infantry", "cavalry", "archers">>

(***************************************************************************)
(* Monte Carlo win% for a single formation                                 *)
(***************************************************************************)
\* The closure returned by mulberry32(seed) holds one word of state
mulberry32(seed) == seed

FindBattleType(battleTypeId) ==
  IF \E k \in 1..Len(BATTLE_TYPES) : BATTLE_TYPES[k].id = battleTypeId
  THEN LET k == CHOOSE j \in 1..Len(BATTLE_TYPES) :
                  /\ BATTLE_TYPES[j].id = battleTypeId
                  /\ \A l \in 1..(j - 1) : BATTLE_TYPES[l].id # battleTypeId
       IN  BATTLE_TYPES[k]
  ELSE BATTLE_TYPES[1]

\* Variant of TroopSeed: the tier of me enters the seed
TroopSeedWithTier(me, enemy) == WFromInt(me.troops.infantry + me.tier.tier)

\* The seed as a 32-bit word: the sum is taken modulo 2^32 by | 0
TroopSeed(me, enemy) ==
  LET W(n) == WFromInt(n)
  IN  WAdd(WAdd(WAdd(WAdd(WAdd(W(me.troops.infantry),
                               WMul(W(3), W(me.troops.cavalry))),
                          WMul(W(7), W(me.troops.archers))),
                     W(enemy.troops.infantry)),
                WMul(W(5), W(enemy.troops.cavalry))),
           WMul(W(11), W(enemy.troops.archers)))

\* 1 / (1 + Math.exp(z)); beyond |z| >= 1024 the double is 0 or 1
Sigmoid(z) ==
  IF z[1] # 0 /\ z[3] > -5 THEN (IF z[1] > 0 THEN FZero ELSE FOne)
  ELSE FDiv(FOne, FAdd(FOne, FExp(z)))

\* For the quotient r = (pMe + 1e-12) / (pEn + 1e-12)
Logistic(r, intensity) ==
  IF r[1] <= 0 THEN FZero
  ELSE Sigmoid(FMul(FMul(FInt(-3), intensity), FLn(r)))

WinProbOf(a, b, intensity) ==
  IF b[1] = 0 THEN (IF a[1] > 0 THEN FOne ELSE FZero)
  ELSE Logistic(FDiv(a, b), intensity)

\* prob = 1 / (1 + Math.exp(-3 * intensity * Math.log((pMe + 1e-12) / (pEn + 1e-12)))).
\* Where the doubles give NaN (a quotient that is negative, or 0/0) the
\* comparison rng() < prob is false, as it is for prob = 0: NaN is FZero.
WinProb(pMe, pEn, intensity) == WinProbOf(FAdd(pMe, Eps12), FAdd(pEn, Eps12), intensity)

\* rng() < prob for the draw U / 2^32, exactly
DrawBelow(U, prob) ==
  IF prob[1] <= 0 THEN FALSE
  ELSE LET m  == prob[2]
           sh == prob[3] + 32
       IN  IF sh >= 18 THEN TRUE
           ELSE IF sh >= 16 THEN U[1] < m * Pow2(sh - 16)
           ELSE IF sh >= 0
                THEN LET thi == m \div Pow2(16 - sh)
                         tlo == (m % Pow2(16 - sh)) * Pow2(sh)
                     IN  U[1] < thi \/ (U[1] = thi /\ U[2] < tlo)
           ELSE /\ U[1] = 0
                /\ U[2] <= (m - 1) \div Pow2(IF 0 - sh > 15 THEN 15 ELSE 0 - sh)

\* The double wins / sims as the fraction [num, den]; den = 0 is the NaN
\* that 0 / 0 gives (every comparison with it is false)
Frac(num, den) == [num |-> num, den |-> den]
FracGt(a, b) == a.den > 0 /\ b.den > 0 /\ a.num * b.den > b.num * a.den
\* comparisons with a percentage pct / 100
FracGe(a, b) == a.den > 0 /\ b.den > 0 /\ a.num * b.den >= b.num * a.den
FracLtPct(a, pct) == a.den > 0 /\ 100 * a.num < pct * a.den
FracGePct(a, pct) == a.den > 0 /\ 100 * a.num >= pct * a.den

(***************************************************************************)
(* Formation search                                                        *)
(***************************************************************************)
getFormationDefaults(battleTypeId) ==
  IF battleTypeId = 1 \/ battleTypeId = 2
  THEN [infantry |-> 50, cavalry |-> 20, archers |-> 30]
  ELSE [infantry |-> 60, cavalry |-> 20, archers |-> 20]

\* { ...my, troops: { round(size * inf/100), round(size * cav/100), round(size * arch/100) } }
\* Variant of TestSide: a side made afresh, nothing copied from my
TestSideFresh(my, size, infPct, cavPct, archPct) ==
  [troops  |-> [infantry |-> RoundPct(size, infPct),
                cavalry  |-> RoundPct(size, cavPct),
                archers  |-> RoundPct(size, archPct)],
   bonuses |-> [t \in {"infantry", "cavalry", "archers"} |-> [atk |-> 0, dfn |-> 0, leth |-> 0, hp |-> 0]],
   special |-> my.special,
   tier    |-> [tier |-> 10, tg |-> 5]]

\* const testSide: Side = { ...my, troops: { ... } }
TestSide(my, size, infPct, cavPct, archPct) ==
  [my EXCEPT !.troops = [infantry |-> RoundPct(size, infPct),
                         cavalry  |-> RoundPct(size, cavPct),
                         archers  |-> RoundPct(size, archPct)]]

\* Variant of ScaleInRange: the scan stops short of the scale 10.0
ScaleInRangeShort(k) == 11 + k < 10 * MaxScale

\* scale <= DEFAULTS.maxScale for the k-th value of scale
ScaleInRange(k) ==
  \/ 11 + k < 10 * MaxScale
  \/ 11 + k = 10 * MaxScale /\ ScaleErr(k) <= 0

\* Variant of CoarseCavLimit: the inner loop runs to 100 whatever inf is
CoarseCavLimitWhole(infPct) == 100

\* The bound of the inner coarse loop: cav <= 100 - inf
CoarseCavLimit(infPct) == 100 - infPct

\* The refine loops from (infPct, cavPct) on: the next pair the body runs
\* for (those with inf + cav > 100 are skipped), or <<>> at the end
RECURSIVE RefineScan(_, _, _)
RefineScan(infPct, cavPct, w) ==
  IF infPct > w.infMax THEN <<>>
  ELSE IF cavPct > w.cavMax THEN RefineScan(infPct + RefineStepPct, w.cavMin, w)
  ELSE IF infPct + cavPct > 100 THEN RefineScan(infPct, cavPct + RefineStepPct, w)
  ELSE <<infPct, cavPct>>

\* Variant of RefineWindow: the lower ends are not held at 0
RefineWindowBelowZero(bestInfPct, bestCavPct) ==
  [infMin |-> bestInfPct - RefineRadiusPct,
   infMax |-> IF bestInfPct + RefineRadiusPct > 100 THEN 100 ELSE bestInfPct + RefineRadiusPct,
   cavMin |-> bestCavPct - RefineRadiusPct,
   cavMax |-> IF bestCavPct + RefineRadiusPct > 100 THEN 100 ELSE bestCavPct + RefineRadiusPct]

\* infMin, infMax, cavMin, cavMax of the refine search
RefineWindow(bestInfPct, bestCavPct) ==
  [infMin |-> IF bestInfPct - RefineRadiusPct < 0 THEN 0 ELSE bestInfPct - RefineRadiusPct,
   infMax |-> IF bestInfPct + RefineRadiusPct > 100 THEN 100 ELSE bestInfPct + RefineRadiusPct,
   cavMin |-> IF bestCavPct - RefineRadiusPct < 0 THEN 0 ELSE bestCavPct - RefineRadiusPct,
   cavMax |-> IF bestCavPct + RefineRadiusPct > 100 THEN 100 ELSE bestCavPct + RefineRadiusPct]

(***************************************************************************)
(* Inputs                                                                  *)
(***************************************************************************)
Bonus(atk, dfn, leth, hp) == [atk |-> atk, dfn |-> dfn, leth |-> leth, hp |-> hp]

NoSpecial ==
  [squads_atk |-> 0, squads_dfn |-> 0, squads_leth |-> 0, squads_hp |-> 0,
   enemy_squads_atk |-> 0, enemy_squads_dfn |-> 0, enemy_leth_pen |-> 0,
   enemy_hp_pen |-> 0, pet_atk_bonus |-> 0]

SomeSpecial ==
  [squads_atk |-> 12, squads_dfn |-> 8, squads_leth |-> 5, squads_hp |-> 10,
   enemy_squads_atk |-> -6, enemy_squads_dfn |-> -4, enemy_leth_pen |-> -3,
   enemy_hp_pen |-> -5, pet_atk_bonus |-> 15]

\* A Side
MkSide(nInf, nCav, nArc, bonus, special, tier, tg) ==
  [troops  |-> [infantry |-> nInf, cavalry |-> nCav, archers |-> nArc],
   bonuses |-> [t \in {"infantry", "cavalry", "archers"} |-> bonus],
   special |-> special,
   tier    |-> [tier |-> tier, tg |-> tg]]

EmptySide == MkSide(0, 0, 0, Bonus(0, 0, 0, 0), NoSpecial, 1, 0)

\* tier and tg as validateTier and validateTG accept them
Tiers == 1..11
TGs == 0..5

KnownIds == {BATTLE_TYPES[j].id : j \in 1..Len(BATTLE_TYPES)}

\* Bounds of the driver
MaxSims == 2
MaxCalls == 3

\* What the driver passes to estimateWinPct
EstSides ==
  { MkSide(30, 0, 10, Bonus(120, 80, 60, 90), SomeSpecial, 10, 5),
    MkSide(12, 8, 20, Bonus(100, 100, 100, 100), NoSpecial, 7, 2) }
EstEnemies ==
  { MkSide(0, 25, 0, Bonus(60, 60, 60, 60), SomeSpecial, 6, 4) }
EstIds == {1, 9}
EstSqrtPowers == {1, 2}

\* Seeds handed to a generator when rollRngMultipliers is called alone
RollSeeds == {0, 1, 12345, -7}

(***************************************************************************)
(* Parsing helpers and builders.  A string is a sequence of characters.    *)
(***************************************************************************)
Digits == <<"0", "1", "2", "3", "4", "5", "6", "7", "8", "9">>

IsDigit(c) == \E d \in 1..10 : Digits[d] = c
DigitValue(c) == (CHOOSE d \in 1..10 : Digits[d] = c) - 1
IsSpace(c) == c = " "

\* The letter c matches under the flag i
SameLetter(c, letter) ==
  c = letter \/ (letter = "t" /\ c = "T") \/ (letter = "g" /\ c = "G")

\* The first index from p on that holds no white space, and no digit
RECURSIVE SkipSpaces(_, _)
SkipSpaces(s, p) == IF p <= Len(s) /\ IsSpace(s[p]) THEN SkipSpaces(s, p + 1) ELSE p
RECURSIVE SkipDigits(_, _)
SkipDigits(s, p) == IF p <= Len(s) /\ IsDigit(s[p]) THEN SkipDigits(s, p + 1) ELSE p

\* parseInt(s[p..q-1], 10) for a run of digits
RECURSIVE parseIntRun(_, _, _)
parseIntRun(s, p, q) ==
  IF q <= p THEN 0 ELSE 10 * parseIntRun(s, p, q - 1) + DigitValue(s[q - 1])

\* Where the letters, then \s*, then (\d+) match from index p: the indices
\* <<start, end>> of the capture, or <<>>
MatchFrom(s, letters, p) ==
  IF /\ p + Len(letters) - 1 <= Len(s)
     /\ \A j \in 1..Len(letters) : SameLetter(s[p + j - 1], letters[j])
     /\ SkipDigits(s, SkipSpaces(s, p + Len(letters))) > SkipSpaces(s, p + Len(letters))
  THEN <<SkipSpaces(s, p + Len(letters)), SkipDigits(s, SkipSpaces(s, p + Len(letters)))>>
  ELSE <<>>

\* /<letters>\s*(\d+)/i.exec(s): the capture of the leftmost match as
\* <<parseInt(capture, 10)>>, or <<>> for null
RECURSIVE ExecFrom(_, _, _)
ExecFrom(s, letters, p) ==
  IF p > Len(s) THEN <<>>
  ELSE IF MatchFrom(s, letters, p) # <<>>
       THEN <<parseIntRun(s, MatchFrom(s, letters, p)[1], MatchFrom(s, letters, p)[2])>>
       ELSE ExecFrom(s, letters, p + 1)

\* Variant of clampInt: only the lower limit is applied
clampIntLow(x, lo, hi) == IF x < lo THEN lo ELSE x

\* Math.max(lo, Math.min(hi, x))
clampInt(x, lo, hi) ==
  LET m == IF x < hi THEN x ELSE hi
  IN  IF m > lo THEN m ELSE lo

clamp(x, lo, hi) == clampInt(x, lo, hi)

parseTierString(s) ==
  [tier |-> IF ExecFrom(s, <<"t">>, 1) # <<>>
            THEN clampInt(ExecFrom(s, <<"t">>, 1)[1], 1, 11) ELSE 10,
   tg   |-> IF ExecFrom(s, <<"t", "g">>, 1) # <<>>
            THEN clampInt(ExecFrom(s, <<"t", "g">>, 1)[1], 0, 5) ELSE 5]

\* troopsFromManual(man).troops, for whole numbers total, infPct, cavPct
troopsFromManual(man) ==
  LET total == IF man.total > 0 THEN man.total ELSE 0
      infP == clamp(man.infPct, 0, 100)
      cavP == clamp(man.cavPct, 0, 100 - infP)
  IN  [infantry |-> RoundPct(total, infP),
       cavalry  |-> RoundPct(total, cavP),
       archers  |-> total - RoundPct(total, infP) - RoundPct(total, cavP)]

\* buildSideFromScout, with what parseScoutPaste returns for the scout text
\* given as parsed
buildSideFromScout(parsed, tierText, special) ==
  [troops |-> parsed.troops, bonuses |-> parsed.bonuses, special |-> special,
   tier |-> parseTierString(tierText)]

\* buildEnemyFromManual, with what parseStatBonusesOnly returns for the
\* stat text given as bonuses
buildEnemyFromManual(bonuses, manual, tierText, special) ==
  [troops |-> troopsFromManual(manual), bonuses |-> bonuses, special |-> special,
   tier |-> parseTierString(tierText)]

(***************************************************************************)
(* State                                                                   *)
\* The calls of recognizeText the page makes, at once or one after another
MaxRequests == 3
Requests == 1 .. MaxRequests

(***************************************************************************)
VARIABLES
  pc,            \* where estimateWinPct is: "idle", "loop", "me", "enemy", "sample"
  me, enemy, battleTypeId, sims, sqrtPower,    \* its parameters
  seed,          \* const seed
  i, wins,       \* the trial loop
  rng,           \* the state of the generator last made by mulberry32
  enemyR, DefStats,    \* sidePressureOnce: const enemyR and DEF of the current call
  tix, total,    \* its loop: index in PressureOrder, let total
  pMe, pEn,
  draws,         \* record of the draws of the current trial, in order
  ret,           \* <<value>> returned to the driver by the last call
  ncalls,        \* calls the driver has completed
  memo,          \* <<[args, value]>> of the driver's first call
  opts,          \* recommendFormation's parameter
  phase,         \* where recommendFormation is: "none", "coarse", "refine",
                 \* "required", "return", "done"
  inf, cav,      \* loop variables of the coarse and refine loops
  bestWin, bestInf, bestCav,
  window,        \* infMin, infMax, cavMin, cavMax
  k,             \* the scan is at its k-th scale (0 is 1.1)
  requiredMarchSize,   \* <<>> is null
  result,        \* <<RecommendResult>> once returned
  seen,          \* record of the win rates of the candidates of the search
  evals,         \* record of the candidates of the search and what they scored, in order
  scans,         \* record of the sizes scanned and their win rates, in order
  prev,          \* <<RecommendResult>> of the call before the current one
  rollArgs, rollRes,   \* a call of rollRngMultipliers alone and its result
  gen,           \* the variable seed of a closure made by mulberry32 alone
  drawn,         \* record of that closure's calls: seed before, fraction returned
  kp,            \* <<two calls of killsPressure alone and what they returned>>
  built,         \* <<the Side a builder returned, with what it was built from>>
  form,          \* the state of BattleCalculatorForm the upload handlers set
  enemyUpload,   \* handleEnemyImageUpload: where it is, and the marchSize of its closure
  myUpload,      \* handleMyImageUpload: where it is
  tess,          \* the module state of the OCR utility, the page's scripts and workers
  reqs,          \* the calls of recognizeText: where each is, and its worker
  weights,       \* <<the target weights of one attacker type, raw, shifted and normalised>>
  pasted         \* the My Troops paste, the March Size field and what handleCalculate made of them

estVars == <<pc, me, enemy, battleTypeId, sims, sqrtPower, seed, i, wins, rng,
             enemyR, DefStats, tix, total, pMe, pEn, draws>>
topVars == <<ret, ncalls, memo>>
rfVars == <<opts, phase, inf, cav, bestWin, bestInf, bestCav, window, k,
            requiredMarchSize, result, seen, evals, scans, prev>>
formVars == <<form, enemyUpload, myUpload>>
ocrVars == <<tess, reqs>>
pureVars == <<weights, pasted>>
rollVars == <<rollArgs, rollRes, gen, drawn, kp, built, formVars, ocrVars, pureVars>>
vars == <<estVars, topVars, rfVars, rollVars>>

NoOpts == [my |-> EmptySide, enemy |-> EmptySide, battleTypeId |-> 1,
           marchSize |-> 0, targetWin |-> <<>>]

\* Entry of sidePressureOnce(att, dfn, ...): enemyR, DEF and let total = 0
DebuffedStats(att, dfn) ==
  [d \in {"infantry", "cavalry", "archers"} |-> applyDebuffs(att, unitStats(dfn, d))]

SideEntry(att, dfn) ==
  /\ enemyR' = ratiosFromTroops(dfn.troops)
  /\ DefStats' = DebuffedStats(att, dfn)
  /\ total' = FZero
  /\ tix' = 1

Init ==
  /\ pc = "idle"
  /\ me = EmptySide /\ enemy = EmptySide /\ battleTypeId = 1
  /\ sims = 0 /\ sqrtPower = DefaultSqrtPower
  /\ seed = <<0, 0>> /\ i = 0 /\ wins = 0 /\ rng = <<0, 0>>
  /\ enemyR = ratiosFromTroops(EmptySide.troops)
  /\ DefStats = DebuffedStats(EmptySide, EmptySide)
  /\ tix = 1 /\ total = FZero /\ pMe = FZero /\ pEn = FZero /\ draws = <<>>
  /\ ret = <<>> /\ ncalls = 0 /\ memo = <<>>
  /\ opts = NoOpts /\ phase = "none" /\ inf = 0 /\ cav = 0
  /\ bestWin = Frac(0, 1) /\ bestInf = 0 /\ bestCav = 0
  /\ window = RefineWindow(0, 0) /\ k = 0
  /\ requiredMarchSize = <<>> /\ result = <<>> /\ seen = {} /\ evals = <<>> /\ scans = <<>>
  /\ prev = <<>>
  /\ rollArgs = [t |-> "infantry", tier |-> [tier |-> 1, tg |-> 0], seed |-> 0]
  /\ rollRes = <<>>
  /\ gen = <<0, 0>> /\ drawn = <<>>
  /\ kp = <<>>
  /\ built = <<>>
  /\ form = [scoutPaste |-> "", myScoutPaste |-> "", myTier |-> "10", myTG |-> "5",
             enemyTier |-> "10", enemyTG |-> "5", marchSize |-> "",
             isOcrProcessingEnemy |-> FALSE, isOcrProcessingMy |-> FALSE,
             debugInfo |-> "null"]
  /\ enemyUpload = [pc |-> "idle", marchSize |-> "", ocr |-> "none", toast |-> "none"]
  /\ myUpload = [pc |-> "idle", ocr |-> "none", toast |-> "none"]
  /\ tess = [tesseractPromise |-> "null", made |-> 0, windowTesseract |-> FALSE,
             scripts |-> 0, script |-> "none"]
  /\ reqs = [r \in Requests |-> [pc |-> "idle", worker |-> "none"]]
  /\ weights = <<>>
  /\ pasted = [stage |-> "start", myScoutPaste |-> <<>>, marchSize |-> <<>>,
               troops |-> <<>>, finalMarchSize |-> <<>>]

(***************************************************************************)
(* estimateWinPct, one step per statement of its loops                     *)
(***************************************************************************)
TrialStride == 9973

\* Variant of TrialRng: one generator kept for all trials and calls, never
\* made anew
TrialRngShared(s, n) == rng

\* The generator of trial n of a call with seed s
TrialRng(s, n) == mulberry32(WAdd(s, WMul(WFromInt(n), WFromInt(TrialStride))))

\* Entry: parameters bound, bt looked up, seed computed, wins = 0, i = 0
EstBegin(m, e, b, s, p) ==
  /\ me' = m /\ enemy' = e /\ battleTypeId' = b /\ sims' = s /\ sqrtPower' = p
  /\ seed' = TroopSeed(m, e)
  /\ i' = 0 /\ wins' = 0
  /\ pMe' = FZero /\ pEn' = FZero /\ draws' = <<>>
  /\ pc' = "loop"
  /\ UNCHANGED <<rng, enemyR, DefStats, tix, total>>

\* const rng = mulberry32(seed + i * 9973), and sidePressureOnce(me, enemy, ...)
\* is entered
TrialStart ==
  /\ pc = "loop" /\ i < sims
  /\ rng' = TrialRng(seed, i)
  /\ SideEntry(me, enemy)
  /\ pc' = "me" /\ draws' = <<>>
  /\ UNCHANGED <<me, enemy, battleTypeId, sims, sqrtPower, seed, i, wins, pMe, pEn>>
  /\ UNCHANGED <<topVars, rfVars, rollVars>>

Tag(who, t, ds) == [j \in 1..Len(ds) |-> [who |-> who, type |-> t, gate |-> ds[j].gate, at |-> ds[j].at]]

\* Variant of PressurePass: the abilities are rolled with the tier of the
\* side that defends
PressurePassDefenderTier(att) ==
  PressureOfType([att EXCEPT !.tier = IF att = me THEN enemy.tier ELSE me.tier],
                 enemyR, DefStats, [total |-> total, rng |-> rng, draws |-> <<>>],
                 PressureOrder[tix], sqrtPower,
                 FindBattleType(battleTypeId).extraSkillFactor)

\* One pass of the loop of sidePressureOnce(att, ...), for PressureOrder[tix]
PressurePass(att) ==
  PressureOfType(att, enemyR, DefStats, [total |-> total, rng |-> rng, draws |-> <<>>],
                 PressureOrder[tix], sqrtPower,
                 FindBattleType(battleTypeId).extraSkillFactor)

\* The loop of sidePressureOnce(me, enemy, ...); after its last pass
\* const pMe = <the total> and sidePressureOnce(enemy, me, ...) is entered
PressureMeWith(acc) ==
  /\ rng' = acc.rng
  /\ draws' = draws \o Tag("me", PressureOrder[tix], acc.draws)
  /\ IF tix < Len(PressureOrder)
     THEN /\ tix' = tix + 1 /\ total' = acc.total
          /\ UNCHANGED <<pc, pMe, enemyR, DefStats>>
     ELSE /\ pMe' = acc.total
          /\ SideEntry(enemy, me)
          /\ pc' = "enemy"

PressureMe ==
  /\ pc = "me"
  /\ PressureMeWith(PressurePass(me))
  /\ UNCHANGED <<me, enemy, battleTypeId, sims, sqrtPower, seed, i, wins, pEn>>
  /\ UNCHANGED <<topVars, rfVars, rollVars>>

\* The loop of sidePressureOnce(enemy, me, ...); after its last pass
\* const pEn = <the total>
PressureEnemyWith(acc) ==
  /\ rng' = acc.rng
  /\ draws' = draws \o Tag("enemy", PressureOrder[tix], acc.draws)
  /\ IF tix < Len(PressureOrder)
     THEN /\ tix' = tix + 1 /\ total' = acc.total
          /\ UNCHANGED <<pc, pEn>>
     ELSE /\ pEn' = acc.total
          /\ pc' = "sample"
          /\ UNCHANGED <<tix, total>>

PressureEnemy ==
  /\ pc = "enemy"
  /\ PressureEnemyWith(PressurePass(enemy))
  /\ UNCHANGED <<me, enemy, battleTypeId, sims, sqrtPower, seed, i, wins, pMe, enemyR, DefStats>>
  /\ UNCHANGED <<topVars, rfVars, rollVars>>

\* adv, prob, if (rng() < prob) wins += 1; i++
Sample ==
  /\ pc = "sample"
  /\ wins' = IF DrawBelow(MbOut(rng), WinProb(pMe, pEn, FindBattleType(battleTypeId).intensity))
             THEN wins + 1 ELSE wins
  /\ rng' = MbNext(rng)
  /\ draws' = Append(draws, [who |-> "sample", type |-> "none", gate |-> "win", at |-> rng])
  /\ i' = i + 1
  /\ pc' = "loop"
  /\ UNCHANGED <<me, enemy, battleTypeId, sims, sqrtPower, seed, enemyR, DefStats,
                 tix, total, pMe, pEn>>
  /\ UNCHANGED <<topVars, rfVars, rollVars>>

EstArgs == [me |-> me, enemy |-> enemy, battleTypeId |-> battleTypeId,
            sims |-> sims, sqrtPower |-> sqrtPower]

\* The driver calls estimateWinPct
TopCall ==
  /\ pc = "idle" /\ phase = "none" /\ ncalls < MaxCalls
  /\ \E m \in EstSides, e \in EstEnemies, b \in EstIds,
        s \in 0..MaxSims, p \in EstSqrtPowers : EstBegin(m, e, b, s, p)
  /\ ret' = <<>>
  /\ UNCHANGED <<ncalls, memo, rfVars, rollVars>>

\* return wins / sims, to the driver
TopReturn ==
  /\ pc = "loop" /\ i >= sims /\ phase = "none"
  /\ ret' = <<Frac(wins, sims)>>
  /\ ncalls' = ncalls + 1
  /\ memo' = IF memo = <<>> THEN <<[args |-> EstArgs, value |-> Frac(wins, sims)]>> ELSE memo
  /\ pc' = "idle"
  /\ UNCHANGED <<me, enemy, battleTypeId, sims, sqrtPower, seed, i, wins, rng,
                 enemyR, DefStats, tix, total, pMe, pEn, draws>>
  /\ UNCHANGED <<rfVars, rollVars>>

NextEstimate ==
  \/ TopCall
  \/ TrialStart
  \/ PressureMe
  \/ PressureEnemy
  \/ Sample
  \/ TopReturn

SpecEstimate == Init /\ [][NextEstimate]_vars

(***************************************************************************)
(* recommendFormation, one step per call of estimateWinPct and per return  *)
(***************************************************************************)
\* What the driver passes to recommendFormation
RfMy == { MkSide(0, 0, 0, Bonus(100, 100, 100, 100), NoSpecial, 10, 3) }
RfEnemies ==
  { MkSide(0, 0, 0, Bonus(100, 100, 100, 100), NoSpecial, 10, 3),
    MkSide(550, 550, 550, Bonus(100, 100, 100, 100), NoSpecial, 10, 3) }
RfIds == {1, 3, 9}
RfMarchSizes == {0, 40}
RfTargetWins == {<<>>}

\* opts.targetWin ?? DEFAULTS.targetWin, in percent
TargetWinOf(o) == IF o.targetWin = <<>> THEN DefaultTargetWin ELSE o.targetWin[1]

\* Entry, up to the head of the coarse loops
RfBegin(o) ==
  /\ opts' = o
  /\ bestWin' = Frac(0, 1)
  /\ bestInf' = getFormationDefaults(o.battleTypeId).infantry
  /\ bestCav' = getFormationDefaults(o.battleTypeId).cavalry
  /\ inf' = 0 /\ cav' = 0
  /\ phase' = "coarse"
  /\ requiredMarchSize' = <<>>
  /\ result' = <<>> /\ seen' = {} /\ evals' = <<>> /\ scans' = <<>>
  /\ UNCHANGED <<window, k>>

\* The driver calls recommendFormation
RfCall ==
  /\ pc = "idle" /\ phase = "none"
  /\ \E my \in RfMy, e \in RfEnemies, b \in RfIds, ms \in RfMarchSizes, tw \in RfTargetWins :
       RfBegin([my |-> my, enemy |-> e, battleTypeId |-> b, marchSize |-> ms, targetWin |-> tw])
  /\ UNCHANGED <<prev, estVars, topVars, rollVars>>

\* const w = estimateWinPct(testSide, enemy, battleTypeId), in the coarse
\* and the refine loops: the call
RfCandidate ==
  /\ pc = "idle" /\ phase \in {"coarse", "refine"}
  /\ EstBegin(TestSide(opts.my, opts.marchSize, inf, cav, 100 - inf - cav),
              opts.enemy, opts.battleTypeId, DefaultSims, DefaultSqrtPower)
  /\ UNCHANGED <<topVars, rfVars, rollVars>>

\* One entry of evals, a candidate and the wins it scored in DefaultSims
\* trials, kept as one number: ((inf * 101 + cav) * 101 + wins) * 2 + (1 in
\* the refine phase, 0 in the coarse phase)
EvalOf(ph, infPct, cavPct, w) ==
  ((infPct * 101 + cavPct) * 101 + w.num) * 2 + (IF ph = "refine" THEN 1 ELSE 0)
EvalPhase(c) == IF c % 2 = 1 THEN "refine" ELSE "coarse"
EvalWin(c) == Frac((c \div 2) % 101, DefaultSims)
EvalCav(c) == (c \div 202) % 101
EvalInf(c) == c \div 20402

\* Variant of KeepBest: a candidate as good as the best replaces it
KeepBestOrEqual(w) ==
  /\ seen' = seen \cup {w}
  /\ evals' = Append(evals, EvalOf(phase, inf, cav, w))
  /\ IF FracGe(w, bestWin)
     THEN bestWin' = w /\ bestInf' = inf /\ bestCav' = cav
     ELSE UNCHANGED <<bestWin, bestInf, bestCav>>

\* if (w > bestWin) { bestWin = w; bestInf = inf; bestCav = cav; }
KeepBest(w) ==
  /\ seen' = seen \cup {w}
  /\ evals' = Append(evals, EvalOf(phase, inf, cav, w))
  /\ IF FracGt(w, bestWin)
     THEN bestWin' = w /\ bestInf' = inf /\ bestCav' = cav
     ELSE UNCHANGED <<bestWin, bestInf, bestCav>>

\* Variant of RfAfterRefine: the scan is entered whatever bestWin is
RfAfterRefineUnguarded ==
  /\ k' = 0
  /\ phase' = IF ScaleInRange(0) THEN "required" ELSE "return"

\* After the refine loops: bestArch, let requiredMarchSize = null,
\* if (bestWin < targetWin) and the head of the scan
RfAfterRefine ==
  /\ k' = 0
  /\ phase' = IF FracLtPct(bestWin', TargetWinOf(opts)) /\ ScaleInRange(0)
              THEN "required" ELSE "return"

\* After the coarse loops: the window, and the head of the refine loops
RfAfterCoarse(w, first) ==
  /\ window' = w
  /\ IF first = <<>>
     THEN RfAfterRefine /\ UNCHANGED <<inf, cav>>
     ELSE inf' = first[1] /\ cav' = first[2] /\ phase' = "refine" /\ UNCHANGED k

\* estimateWinPct returns to the coarse loops, which go on
RfCoarseReturn ==
  /\ pc = "loop" /\ i >= sims /\ phase = "coarse"
  /\ pc' = "idle"
  /\ KeepBest(Frac(wins, sims))
  /\ IF cav + CoarseStepPct <= CoarseCavLimit(inf)
     THEN cav' = cav + CoarseStepPct /\ UNCHANGED <<inf, phase, window, k>>
     ELSE IF inf + CoarseStepPct <= 100
     THEN inf' = inf + CoarseStepPct /\ cav' = 0 /\ UNCHANGED <<phase, window, k>>
     ELSE RfAfterCoarse(RefineWindow(bestInf', bestCav'),
                        RefineScan(RefineWindow(bestInf', bestCav').infMin,
                                   RefineWindow(bestInf', bestCav').cavMin,
                                   RefineWindow(bestInf', bestCav')))
  /\ UNCHANGED <<opts, requiredMarchSize, result, scans, prev>>
  /\ UNCHANGED <<me, enemy, battleTypeId, sims, sqrtPower, seed, i, wins, rng,
                 enemyR, DefStats, tix, total, pMe, pEn, draws>>
  /\ UNCHANGED <<topVars, rollVars>>

RfRefineNext(next) ==
  IF next = <<>>
  THEN RfAfterRefine /\ UNCHANGED <<inf, cav>>
  ELSE inf' = next[1] /\ cav' = next[2] /\ UNCHANGED <<phase, k>>

\* estimateWinPct returns to the refine loops, which go on
RfRefineReturn ==
  /\ pc = "loop" /\ i >= sims /\ phase = "refine"
  /\ pc' = "idle"
  /\ KeepBest(Frac(wins, sims))
  /\ RfRefineNext(RefineScan(inf, cav + RefineStepPct, window))
  /\ UNCHANGED <<opts, window, requiredMarchSize, result, scans, prev>>
  /\ UNCHANGED <<me, enemy, battleTypeId, sims, sqrtPower, seed, i, wins, rng,
                 enemyR, DefStats, tix, total, pMe, pEn, draws>>
  /\ UNCHANGED <<topVars, rollVars>>

\* const scaledSize = Math.round(marchSize * scale), for the k-th scale
ScaledSize == RoundScaled(opts.marchSize, k)

\* const w = estimateWinPct(testSide, enemy, battleTypeId) in the scan: the call
RfScaled ==
  /\ pc = "idle" /\ phase = "required"
  /\ EstBegin(TestSide(opts.my, ScaledSize, bestInf, bestCav, 100 - bestInf - bestCav),
              opts.enemy, opts.battleTypeId, DefaultSims, DefaultSqrtPower)
  /\ UNCHANGED <<topVars, rfVars, rollVars>>

\* Variant of RfRequiredReturn: the size is recorded without leaving the scan
RfRequiredReturnNoBreak ==
  /\ pc = "loop" /\ i >= sims /\ phase = "required"
  /\ pc' = "idle"
  /\ scans' = Append(scans, [k |-> k, size |-> ScaledSize, w |-> Frac(wins, sims)])
  /\ requiredMarchSize' = IF FracGePct(Frac(wins, sims), TargetWinOf(opts))
                          THEN <<ScaledSize>> ELSE requiredMarchSize
  /\ k' = k + 1
  /\ phase' = IF ScaleInRange(k + 1) THEN "required" ELSE "return"
  /\ UNCHANGED <<opts, inf, cav, bestWin, bestInf, bestCav, window, result, seen, evals, prev>>
  /\ UNCHANGED <<me, enemy, battleTypeId, sims, sqrtPower, seed, i, wins, rng,
                 enemyR, DefStats, tix, total, pMe, pEn, draws>>
  /\ UNCHANGED <<topVars, rollVars>>

\* estimateWinPct returns to the scan:
\* if (w >= targetWin) { requiredMarchSize = scaledSize; break; }
RfRequiredReturn ==
  /\ pc = "loop" /\ i >= sims /\ phase = "required"
  /\ pc' = "idle"
  /\ scans' = Append(scans, [k |-> k, size |-> ScaledSize, w |-> Frac(wins, sims)])
  /\ IF FracGePct(Frac(wins, sims), TargetWinOf(opts))
     THEN /\ requiredMarchSize' = <<ScaledSize>>
          /\ phase' = "return"
          /\ UNCHANGED k
     ELSE /\ k' = k + 1
          /\ phase' = IF ScaleInRange(k + 1) THEN "required" ELSE "return"
          /\ UNCHANGED requiredMarchSize
  /\ UNCHANGED <<opts, inf, cav, bestWin, bestInf, bestCav, window, result, seen, evals, prev>>
  /\ UNCHANGED <<me, enemy, battleTypeId, sims, sqrtPower, seed, i, wins, rng,
                 enemyR, DefStats, tix, total, pMe, pEn, draws>>
  /\ UNCHANGED <<topVars, rollVars>>

\* Variant of RfReturn: the troops are those of the march size scaled by 1.1
RfReturnScaledTroops ==
  /\ phase = "return"
  /\ result' = << [winPct |-> bestWin,
                   formation |-> [infantry |-> bestInf, cavalry |-> bestCav,
                                  archers |-> 100 - bestInf - bestCav],
                   troops |-> [infantry |-> RoundPct(RoundScaled(opts.marchSize, 0), bestInf),
                               cavalry  |-> RoundPct(RoundScaled(opts.marchSize, 0), bestCav),
                               archers  |-> RoundPct(RoundScaled(opts.marchSize, 0), 100 - bestInf - bestCav)],
                   requiredMarchSize |-> requiredMarchSize] >>
  /\ phase' = "done"
  /\ UNCHANGED <<opts, inf, cav, bestWin, bestInf, bestCav, window, k,
                 requiredMarchSize, seen, evals, scans, prev>>
  /\ UNCHANGED <<estVars, topVars, rollVars>>

\* return { winPct, formation, troops, requiredMarchSize }
RfReturn ==
  /\ phase = "return"
  /\ result' = << [winPct |-> bestWin,
                   formation |-> [infantry |-> bestInf, cavalry |-> bestCav,
                                  archers |-> 100 - bestInf - bestCav],
                   troops |-> [infantry |-> RoundPct(opts.marchSize, bestInf),
                               cavalry  |-> RoundPct(opts.marchSize, bestCav),
                               archers  |-> RoundPct(opts.marchSize, 100 - bestInf - bestCav)],
                   requiredMarchSize |-> requiredMarchSize] >>
  /\ phase' = "done"
  /\ UNCHANGED <<opts, inf, cav, bestWin, bestInf, bestCav, window, k,
                 requiredMarchSize, seen, evals, scans, prev>>
  /\ UNCHANGED <<estVars, topVars, rollVars>>

\* The driver, after a call with an id the catalog does not hold, calls
\* recommendFormation again with battleTypeId 1 and the same other inputs
RfCallAgain ==
  /\ phase = "done" /\ prev = <<>>
  /\ opts.battleTypeId \notin KnownIds
  /\ prev' = result
  /\ RfBegin([opts EXCEPT !.battleTypeId = 1])
  /\ UNCHANGED <<estVars, topVars, rollVars>>

NextRecommend ==
  \/ RfCall
  \/ RfCandidate
  \/ TrialStart
  \/ PressureMe
  \/ PressureEnemy
  \/ Sample
  \/ RfCoarseReturn
  \/ RfRefineReturn
  \/ RfScaled
  \/ RfRequiredReturn
  \/ RfReturn
  \/ RfCallAgain

SpecRecommend == Init /\ [][NextRecommend]_vars

(***************************************************************************)
(* recommendFormation called where the refine phase finds a formation      *)
(* better than the best of the coarse phase, and on an empty march         *)
(***************************************************************************)
RefineInputs ==
  { [my |-> MkSide(0, 0, 0, Bonus(100, 100, 100, 100), NoSpecial, 10, 3),
     enemy |-> MkSide(25, 40, 30, Bonus(100, 100, 100, 100), NoSpecial, 10, 3),
     battleTypeId |-> 1, marchSize |-> 40, targetWin |-> <<>>],
    [my |-> MkSide(0, 0, 0, Bonus(100, 100, 100, 100), NoSpecial, 10, 3),
     enemy |-> MkSide(5, 30, 60, Bonus(100, 100, 100, 100), NoSpecial, 10, 3),
     battleTypeId |-> 3, marchSize |-> 40, targetWin |-> <<>>],
    [my |-> MkSide(7, 7, 7, Bonus(100, 100, 100, 100), NoSpecial, 10, 3),
     enemy |-> MkSide(5, 30, 60, Bonus(100, 100, 100, 100), NoSpecial, 10, 3),
     battleTypeId |-> 2, marchSize |-> 0, targetWin |-> <<>>] }

RefineCall ==
  /\ pc = "idle" /\ phase = "none"
  /\ \E o \in RefineInputs : RfBegin(o)
  /\ UNCHANGED <<prev, estVars, topVars, rollVars>>

NextRefine ==
  \/ RefineCall
  \/ RfCandidate
  \/ TrialStart
  \/ PressureMe
  \/ PressureEnemy
  \/ Sample
  \/ RfCoarseReturn
  \/ RfRefineReturn
  \/ RfScaled
  \/ RfRequiredReturn
  \/ RfReturn

SpecRefine == Init /\ [][NextRefine]_vars

(***************************************************************************)
(* recommendFormation called with march sizes whose shares fall on a half  *)
(***************************************************************************)
RoundInputs ==
  { [my |-> MkSide(0, 0, 0, Bonus(100, 100, 100, 100), NoSpecial, 10, 3),
     enemy |-> MkSide(0, 45, 5, Bonus(100, 100, 100, 100), NoSpecial, 10, 3),
     battleTypeId |-> 1, marchSize |-> 45, targetWin |-> <<>>],
    [my |-> MkSide(7, 7, 7, Bonus(100, 100, 100, 100), NoSpecial, 10, 3),
     enemy |-> MkSide(5, 30, 60, Bonus(100, 100, 100, 100), NoSpecial, 10, 3),
     battleTypeId |-> 2, marchSize |-> 0, targetWin |-> <<>>] }

RoundCall ==
  /\ pc = "idle" /\ phase = "none"
  /\ \E o \in RoundInputs : RfBegin(o)
  /\ UNCHANGED <<prev, estVars, topVars, rollVars>>

NextRound ==
  \/ RoundCall
  \/ RfCandidate
  \/ TrialStart
  \/ PressureMe
  \/ PressureEnemy
  \/ Sample
  \/ RfCoarseReturn
  \/ RfRefineReturn
  \/ RfScaled
  \/ RfRequiredReturn
  \/ RfReturn

SpecRound == Init /\ [][NextRound]_vars

(***************************************************************************)
(* rollRngMultipliers called alone                                         *)
(***************************************************************************)
RollCall ==
  /\ rollRes = <<>>
  /\ \E t \in {"infantry", "cavalry", "archers"}, tier \in Tiers, tg \in TGs, s \in RollSeeds :
       /\ rollArgs' = [t |-> t, tier |-> [tier |-> tier, tg |-> tg], seed |-> s]
       /\ rollRes' = <<rollRngMultipliers(t, [tier |-> tier, tg |-> tg], mulberry32(WFromInt(s)))>>
  /\ UNCHANGED <<estVars, topVars, rfVars, gen, drawn, kp, built, formVars, ocrVars, pureVars>>

SpecRoll == Init /\ [][RollCall]_vars

(***************************************************************************)
(* mulberry32 called alone, and the closure it returns called repeatedly   *)
(***************************************************************************)
MaxDraws == 14

\* seed + i * 9973 for a signed 32-bit seed and a trial i below 350
DrawSeeds ==
  { <<0, 0>>, <<0, 1>>, <<0, 12345>>, <<-1, 65529>>, <<-32768, 0>>,
    <<32767, 65535>>, <<32768, 9972>>, <<32821, 7232>> }

GenMake ==
  /\ \E s \in DrawSeeds : gen' = s
  /\ drawn' = <<>>
  /\ UNCHANGED <<estVars, topVars, rfVars, rollArgs, rollRes, kp, built, formVars, ocrVars, pureVars>>

GenDraw ==
  /\ Len(drawn) < MaxDraws
  /\ gen' = MbDraw(gen).seed
  /\ drawn' = Append(drawn, [from |-> gen, num |-> MbDraw(gen).num])
  /\ UNCHANGED <<estVars, topVars, rfVars, rollArgs, rollRes, kp, built, formVars, ocrVars, pureVars>>

NextDraw ==
  \/ GenMake
  \/ GenDraw

SpecDraw == Init /\ [][NextDraw]_vars

(***************************************************************************)
(* killsPressure called alone, twice, on arguments that differ in one      *)
(* place; and estimateWinPct called on sides without troops.  A stat       *)
(* multiplier is given in hundredths: 1 + pct / 100 for a whole pct.       *)
(***************************************************************************)
KpCounts == {0, 10, 40}
KpStats == {-50, 0, 100, 200}
KpDmgMults == {100, 200}
KpTankMults == {100, 106}

KpPlaces == {"n", "atk", "leth", "def", "hp", "dmgMult", "tankMult"}

KpArgs ==
  [n : KpCounts, atk : KpStats, leth : KpStats, def : {-50, 0, 100}, hp : {-50, 0, 100},
   dmgMult : KpDmgMults, tankMult : KpTankMults]

KpRange(place) ==
  CASE place = "n" -> KpCounts
    [] place = "dmgMult" -> KpDmgMults
    [] place = "tankMult" -> KpTankMults
    [] OTHER -> KpStats

KpValue(a) ==
  killsPressure(a.n, FRat(a.atk, 100), FRat(a.leth, 100), FRat(a.def, 100), FRat(a.hp, 100),
                FRat(a.dmgMult, 100), FRat(a.tankMult, 100), DefaultSqrtPower)

KpDenom(a) == killsDenom(FRat(a.def, 100), FRat(a.hp, 100), FRat(a.tankMult, 100))

KpCall ==
  /\ kp = <<>>
  /\ \E a \in KpArgs, place \in KpPlaces :
       \E v \in KpRange(place) :
         /\ v > a[place]
         /\ kp' = << [place |-> place, lo |-> a, hi |-> [a EXCEPT ![place] = v],
                      vlo |-> KpValue(a), vhi |-> KpValue([a EXCEPT ![place] = v]),
                      dlo |-> KpDenom(a), dhi |-> KpDenom([a EXCEPT ![place] = v])] >>
  /\ UNCHANGED <<estVars, topVars, rfVars, rollArgs, rollRes, gen, drawn, built, formVars, ocrVars, pureVars>>

SpecKp == Init /\ [][KpCall]_vars

(***************************************************************************)
(* estimateWinPct called on sides whose infantry can raise its shield,     *)
(* against defenders with and without a defense                            *)
(***************************************************************************)
ShieldSims == 3

ShieldSides ==
  { MkSide(12, 8, 20, Bonus(100, 100, 100, 100), NoSpecial, 7, 3),
    MkSide(10, 10, 15, Bonus(110, -100, 100, 120), NoSpecial, 10, 5),
    MkSide(9, 0, 4, Bonus(50, 20, 0, 10), SomeSpecial, 5, 2) }

ShieldCall ==
  /\ pc = "idle" /\ phase = "none" /\ ncalls < MaxCalls
  /\ \E m \in ShieldSides, e \in ShieldSides :
       EstBegin(m, e, 1, ShieldSims, DefaultSqrtPower)
  /\ ret' = <<>>
  /\ UNCHANGED <<ncalls, memo, rfVars, rollVars>>

NextShield ==
  \/ ShieldCall
  \/ TrialStart
  \/ PressureMe
  \/ PressureEnemy
  \/ Sample
  \/ TopReturn

SpecShield == Init /\ [][NextShield]_vars

(***************************************************************************)
(* The target weights of sidePressureOnce alone, for one attacker type     *)
(***************************************************************************)
MaxWeightTroops == 4
WeightTroops ==
  [infantry : 0 .. MaxWeightTroops, cavalry : 0 .. MaxWeightTroops,
   archers : 0 .. MaxWeightTroops]

\* proc.cavBackline as rollRngMultipliers leaves it: 0, or 0.25 on a hit
Backlines == {FZero, FRat(25, 100)}

\* What the loop body holds for defender troops d, attacker type t and
\* backline shift b: the weights before the shift, after it, their sum,
\* and the normalised weights (<<>> when the type is skipped)
WeightsOf(d, t, b, ratios, raw, w) ==
  [troops |-> d, type |-> t, cavBackline |-> b, enemyR |-> ratios,
   raw |-> raw, w |-> w, sum |-> WeightSum(w),
   norm |-> IF FLe(WeightSum(w), FZero) THEN <<>> ELSE <<NormWeights(w, WeightSum(w))>>]

WeightsCall ==
  /\ weights = <<>>
  /\ \E d \in WeightTroops, t \in {"infantry", "cavalry", "archers"}, b \in Backlines :
       weights' = << WeightsOf(d, t, b, ratiosFromTroops(d),
                          TargetWeights(ratiosFromTroops(d), t, FZero),
                          TargetWeights(ratiosFromTroops(d), t, b)) >>
  /\ UNCHANGED <<estVars, topVars, rfVars, rollArgs, rollRes, gen, drawn, kp, built, formVars, ocrVars, pasted>>

SpecWeights == Init /\ [][WeightsCall]_vars

PressureSims == 2

PressureSides ==
  { MkSide(0, 0, 0, Bonus(120, -100, 60, 90), SomeSpecial, 10, 5),
    MkSide(12, 8, 20, Bonus(100, 100, 100, 100), NoSpecial, 7, 2),
    MkSide(0, 9, 0, Bonus(-100, -100, 0, -150), NoSpecial, 8, 3) }

PressureCall ==
  /\ pc = "idle" /\ phase = "none" /\ ncalls < MaxCalls
  /\ \E m \in PressureSides, e \in PressureSides :
       EstBegin(m, e, 1, PressureSims, DefaultSqrtPower)
  /\ ret' = <<>>
  /\ UNCHANGED <<ncalls, memo, rfVars, rollVars>>

NextPressure ==
  \/ PressureCall
  \/ TrialStart
  \/ PressureMe
  \/ PressureEnemy
  \/ Sample
  \/ TopReturn

SpecPressure == Init /\ [][NextPressure]_vars

(***************************************************************************)
(* estimateWinPct called on sides whose debuffs of the enemy differ in     *)
(* sign only                                                               *)
(***************************************************************************)
DebuffSims == 2

DebuffSpecial ==
  [squads_atk |-> 0, squads_dfn |-> 0, squads_leth |-> 0, squads_hp |-> 0,
   enemy_squads_atk |-> -20, enemy_squads_dfn |-> 25, enemy_leth_pen |-> -30,
   enemy_hp_pen |-> 20, pet_atk_bonus |-> 0]

\* side with its two penalties negated, and with its two squads debuffs negated
NegPens(side) ==
  [side EXCEPT !.special.enemy_leth_pen = 0 - @, !.special.enemy_hp_pen = 0 - @]
NegSquads(side) ==
  [side EXCEPT !.special.enemy_squads_dfn = 0 - @, !.special.enemy_squads_atk = 0 - @]

DebuffSides ==
  { MkSide(12, 8, 20, Bonus(100, 100, 100, 100), DebuffSpecial, 7, 2),
    NegPens(MkSide(12, 8, 20, Bonus(100, 100, 100, 100), DebuffSpecial, 7, 2)),
    NegSquads(MkSide(12, 8, 20, Bonus(100, 100, 100, 100), DebuffSpecial, 7, 2)) }
DebuffEnemies ==
  { MkSide(10, 10, 15, Bonus(110, 90, 100, 120), NoSpecial, 8, 3),
    MkSide(10, 10, 15, Bonus(110, 90, 100, 120), SomeSpecial, 8, 3) }

DebuffCall ==
  /\ pc = "idle" /\ phase = "none" /\ ncalls < MaxCalls
  /\ \E m \in DebuffSides, e \in DebuffEnemies :
       EstBegin(m, e, 1, DebuffSims, DefaultSqrtPower)
  /\ ret' = <<>>
  /\ UNCHANGED <<ncalls, memo, rfVars, rollVars>>

NextDebuff ==
  \/ DebuffCall
  \/ TrialStart
  \/ PressureMe
  \/ PressureEnemy
  \/ Sample
  \/ TopReturn

SpecDebuff == Init /\ [][NextDebuff]_vars

(***************************************************************************)
(* estimateWinPct called on sides that differ in enemy_squads_atk and      *)
(* enemy_leth_pen only                                                     *)
(***************************************************************************)
IgnoredSims == 2

\* side with the given enemy_squads_atk and enemy_leth_pen
WithAtkLeth(side, a, l) ==
  [side EXCEPT !.special.enemy_squads_atk = a, !.special.enemy_leth_pen = l]

IgnoredSides ==
  { WithAtkLeth(MkSide(12, 8, 20, Bonus(100, 100, 100, 100), DebuffSpecial, 7, 2), a, l) :
      a \in {-20, 35}, l \in {-30, 10} }
IgnoredEnemies ==
  { WithAtkLeth(MkSide(10, 10, 15, Bonus(110, 90, 100, 120), SomeSpecial, 8, 3), a, l) :
      a \in {-6, 50}, l \in {-3, 0} }

IgnoredCall ==
  /\ pc = "idle" /\ phase = "none" /\ ncalls < MaxCalls
  /\ \E m \in IgnoredSides, e \in IgnoredEnemies :
       EstBegin(m, e, 1, IgnoredSims, DefaultSqrtPower)
  /\ ret' = <<>>
  /\ UNCHANGED <<ncalls, memo, rfVars, rollVars>>

NextIgnored ==
  \/ IgnoredCall
  \/ TrialStart
  \/ PressureMe
  \/ PressureEnemy
  \/ Sample
  \/ TopReturn

SpecIgnored == Init /\ [][NextIgnored]_vars

(***************************************************************************)
(* The My Troops paste: parseScoutPaste, handleMyScoutPasteChange and the  *)
(* march size of handleCalculate                                           *)
(***************************************************************************)
MaxLines == 3

\* Lines of a paste, after normalizeLines. kw holds the words among
\* "infantry", "cavalry", "archer" that the lowercased line includes; tok is
\* <<>> when the line has no numeric token and else <<token>>, the token
\* with its sign, the value of its leading run of digits and commas, and
\* whether a fraction or a percent sign follows; kind tells what the line
\* is in a scout report and is not read by the parser.
PasteLine(kind, kw, tok) == [kind |-> kind, kw |-> kw, tok |-> tok]
NumTok(sign, int, frac, pct) == <<[sign |-> sign, int |-> int, frac |-> frac, pct |-> pct]>>

PasteLines ==
  { PasteLine("name",   {"infantry"}, <<>>),                            \* Apex Infantry
    PasteLine("number", {},           NumTok("", 81791, FALSE, FALSE)), \* 81,791
    PasteLine("troop",  {"cavalry"},  NumTok("", 66244, FALSE, FALSE)), \* Truegold Cavalry 66,244
    PasteLine("troop",  {"archer"},   NumTok("", 0, FALSE, FALSE)),     \* Archers 0
    PasteLine("stat",   {"infantry"}, NumTok("+", 150, FALSE, TRUE)),   \* Infantry Attack: +150%
    PasteLine("stat",   {"archer"},   NumTok("+", 32, TRUE, TRUE)) }    \* Archer Health: +32.5%

RECURSIVE PasteTextsOf(_)
PasteTextsOf(n) ==
  IF n = 0 THEN {<<>>}
  ELSE PasteTextsOf(n - 1) \cup
       { Append(x, l) : x \in {y \in PasteTextsOf(n - 1) : Len(y) = n - 1}, l \in PasteLines }

PasteTexts == PasteTextsOf(MaxLines)

\* The March Size field: <<>> when empty, <<n>> when it holds the digits of n
ManualMarchSizes == {<<>>, <<200>>}

\* extractNumberToken(line)
extractNumberToken(line) == line.tok

\* parseIntCommas(tok): null for no token, else the leading run of digits
\* and commas of the token, as an integer
parseIntCommas(tok) == IF tok = <<>> THEN <<>> ELSE <<tok[1].int>>

\* const val = parseIntCommas(tokHere) ?? parseIntCommas(tokNext)
LineVal(lines, j) ==
  IF parseIntCommas(extractNumberToken(lines[j])) # <<>>
  THEN parseIntCommas(extractNumberToken(lines[j]))
  ELSE IF j + 1 <= Len(lines) THEN parseIntCommas(extractNumberToken(lines[j + 1])) ELSE <<>>

KeywordOf(t) == IF t = "archers" THEN "archer" ELSE t

IntMax(a, b) == IF a >= b THEN a ELSE b

\* The loop of parseScoutPaste over the lines j .. Len(lines), from troops
RECURSIVE ScoutLoop(_, _, _)
ScoutLoop(lines, j, troops) ==
  IF j > Len(lines) THEN troops
  ELSE ScoutLoop(lines, j + 1,
         IF LineVal(lines, j) = <<>> THEN troops
         ELSE [t \in {"infantry", "cavalry", "archers"} |->
                 IF KeywordOf(t) \in lines[j].kw
                 THEN IntMax(troops[t], LineVal(lines, j)[1]) ELSE troops[t]])

\* parseScoutPaste(text).troops
parseScoutPaste(lines) ==
  ScoutLoop(lines, 1, [t \in {"infantry", "cavalry", "archers"} |-> 0])

sumTroops(t) == t.infantry + t.cavalry + t.archers

\* parseIntLoose of the March Size field
parseIntLoose(field) == IF field = <<>> THEN 0 ELSE field[1]

\* handleMyScoutPasteChange(value), after the user has typed in the
\* March Size field
MyScoutPasteChange ==
  /\ pasted.stage = "start"
  /\ \E value \in PasteTexts, typed \in ManualMarchSizes :
       pasted' = [pasted EXCEPT
                    !.stage = "pasted",
                    !.myScoutPaste = value,
                    !.marchSize = IF value # <<>> /\ sumTroops(parseScoutPaste(value)) > 0
                                  THEN <<sumTroops(parseScoutPaste(value))>> ELSE typed]
  /\ UNCHANGED <<estVars, topVars, rfVars, rollArgs, rollRes, gen, drawn, kp, built,
                 formVars, ocrVars, weights>>

\* The user changes the March Size field after the paste
RetypeMarchSize ==
  /\ pasted.stage = "pasted"
  /\ \E typed \in ManualMarchSizes \ {pasted.marchSize} :
       pasted' = [pasted EXCEPT !.stage = "retyped", !.marchSize = typed]
  /\ UNCHANGED <<estVars, topVars, rfVars, rollArgs, rollRes, gen, drawn, kp, built,
                 formVars, ocrVars, weights>>

\* handleCalculate: let finalMarchSize
Calculate ==
  /\ pasted.stage \in {"pasted", "retyped"}
  /\ pasted' = [pasted EXCEPT
                  !.stage = "calculated",
                  !.troops = IF pasted.myScoutPaste # <<>>
                             THEN <<parseScoutPaste(pasted.myScoutPaste)>> ELSE <<>>,
                  !.finalMarchSize =
                     IF pasted.myScoutPaste # <<>>
                        /\ sumTroops(parseScoutPaste(pasted.myScoutPaste)) > 0
                     THEN <<sumTroops(parseScoutPaste(pasted.myScoutPaste))>>
                     ELSE <<parseIntLoose(pasted.marchSize)>>]
  /\ UNCHANGED <<estVars, topVars, rfVars, rollArgs, rollRes, gen, drawn, kp, built,
                 formVars, ocrVars, weights>>

NextPaste ==
  \/ MyScoutPasteChange
  \/ RetypeMarchSize
  \/ Calculate

SpecPaste == Init /\ [][NextPaste]_vars

(***************************************************************************)
(* The builders called alone                                               *)
(***************************************************************************)
MaxManualTotal == 12
ManualPcts == {0, 10, 25, 33, 50, 67, 90, 100}

\* `T${enemyTier} TG${enemyTG}` as the form writes it
FormTierTexts ==
  { <<"T", "1", "0", " ", "T", "G", "5">>, <<"T", "7", " ", "T", "G", "0">> }

\* The form builds the enemy from a manual entry that passed
\* validateMarchSize and validateManualTroopComposition
ManualBuild ==
  /\ built = <<>>
  /\ \E n \in 1..MaxManualTotal, infPct \in ManualPcts, cavPct \in ManualPcts,
        text \in FormTierTexts :
       /\ infPct + cavPct <= 100
       /\ built' = << [manual |-> [total |-> n, infPct |-> infPct, cavPct |-> cavPct],
                       tierText |-> text,
                       side |-> buildEnemyFromManual(
                                  [t \in {"infantry", "cavalry", "archers"} |-> Bonus(100, 100, 100, 100)],
                                  [total |-> n, infPct |-> infPct, cavPct |-> cavPct],
                                  text, NoSpecial)] >>
  /\ UNCHANGED <<estVars, topVars, rfVars, rollArgs, rollRes, gen, drawn, kp, formVars, ocrVars, pureVars>>

SpecManual == Init /\ [][ManualBuild]_vars

MaxTextLen == 5
TierAlphabet == {"t", "T", "g", " ", "0", "1", "9"}
TierTexts == UNION {[1..n -> TierAlphabet] : n \in 0..MaxTextLen}

ScoutBuild ==
  /\ built = <<>>
  /\ \E text \in TierTexts :
       built' = << [manual |-> <<>>,
                    tierText |-> text,
                    side |-> buildSideFromScout(
                               [troops |-> [infantry |-> 12, cavalry |-> 8, archers |-> 20],
                                bonuses |-> [t \in {"infantry", "cavalry", "archers"} |-> Bonus(100, 100, 100, 100)]],
                               text, NoSpecial)] >>
  /\ UNCHANGED <<estVars, topVars, rfVars, rollArgs, rollRes, gen, drawn, kp, formVars, ocrVars, pureVars>>

SpecTier == Init /\ [][ScoutBuild]_vars

(***************************************************************************)
(* BattleCalculatorForm: the two image upload handlers.  Each runs to its  *)
(* await, and from the settling of extractScoutFromImage to its end; the   *)
(* state setters of one run of a handler take effect together.  Numbers    *)
(* shown in a field are written as the string toString() gives.            *)
(***************************************************************************)
\* What the file input hands over: no file, not an image, above 10MB, or an image
UploadFiles == {"none", "text", "large", "image"}

\* What extractScoutFromImage resolves to ("null" for null)
OcrTexts == {"scout A", "scout B"}
\* The march sizes and the troop totals a scout report is read to hold
OcrMarchSizes == {"100"}
OcrTotals == {"50"}
OcrResults ==
  [fullText : OcrTexts, marchSize : {"null"} \cup OcrMarchSizes, total : {"0"} \cup OcrTotals,
   tier : {"null", "7"}, tgLevel : {"null", "3"}, debug : {"debug"}]

\* Variant of EnemyFill: the detected tier is put into My Troops
EnemyFillMyTier(f, res, closureMarchSize) ==
  [f EXCEPT !.scoutPaste = res.fullText,
            !.myTier = IF res.tier # "null" THEN res.tier ELSE @,
            !.debugInfo = res.debug]

\* The setters of handleEnemyImageUpload between the await and the toast
EnemyFill(f, res, closureMarchSize) ==
  [f EXCEPT !.scoutPaste = res.fullText,
            !.marchSize = IF res.marchSize # "null" THEN res.marchSize
                          ELSE IF closureMarchSize = "" /\ res.total # "0" THEN res.total
                          ELSE @,
            !.enemyTier = IF res.tier # "null" THEN res.tier ELSE @,
            !.enemyTG = IF res.tgLevel # "null" THEN res.tgLevel ELSE @,
            !.debugInfo = res.debug]

\* The setters of handleMyImageUpload between the await and the toast
MyFill(f, res) ==
  [f EXCEPT !.myScoutPaste = res.fullText,
            !.marchSize = IF res.total # "0" THEN res.total
                          ELSE IF res.marchSize # "null" THEN res.marchSize
                          ELSE @,
            !.myTier = IF res.tier # "null" THEN res.tier ELSE @,
            !.myTG = IF res.tgLevel # "null" THEN res.tgLevel ELSE @,
            !.debugInfo = res.debug]

\* The finally block of handleEnemyImageUpload without its setter
EnemyFinallyFlagKept(f) == f

\* The finally block of handleEnemyImageUpload
EnemyFinally(f) == [f EXCEPT !.isOcrProcessingEnemy = FALSE]

\* The finally block of handleMyImageUpload
MyFinally(f) == [f EXCEPT !.isOcrProcessingMy = FALSE]

\* The march sizes a user types into the field ("" clears it)
TypedMarchSizes == {"", "200"}

\* handleEnemyImageUpload up to its await: the early returns with their
\* toasts, and setIsOcrProcessingEnemy(true).  The input is disabled while
\* isOcrProcessingEnemy holds.  The handler keeps the marchSize of the render
\* that made it.
EnemyUploadStart ==
  /\ enemyUpload.pc = "idle"
  /\ ~form.isOcrProcessingEnemy
  /\ \E file \in UploadFiles :
       CASE file = "image" ->
              /\ form' = [form EXCEPT !.isOcrProcessingEnemy = TRUE]
              /\ enemyUpload' = [pc |-> "await", marchSize |-> form.marchSize,
                                 ocr |-> "pending", toast |-> "none"]
         [] file = "none" -> UNCHANGED <<form, enemyUpload>>
         [] OTHER ->
              /\ enemyUpload' = [enemyUpload EXCEPT !.toast = "error"]
              /\ UNCHANGED form
  /\ UNCHANGED <<myUpload, estVars, topVars, rfVars, rollArgs, rollRes, gen, drawn, kp, built, ocrVars, pureVars>>

\* extractScoutFromImage resolves: the setters, toast.success, the finally block
EnemyUploadResolve ==
  /\ enemyUpload.pc = "await"
  /\ \E res \in OcrResults :
       form' = EnemyFinally(EnemyFill(form, res, enemyUpload.marchSize))
  /\ enemyUpload' = [pc |-> "idle", marchSize |-> "", ocr |-> "resolved", toast |-> "success"]
  /\ UNCHANGED <<myUpload, estVars, topVars, rfVars, rollArgs, rollRes, gen, drawn, kp, built, ocrVars, pureVars>>

\* extractScoutFromImage rejects: the catch block with toast.error, the finally block
EnemyUploadReject ==
  /\ enemyUpload.pc = "await"
  /\ form' = EnemyFinally(form)
  /\ enemyUpload' = [pc |-> "idle", marchSize |-> "", ocr |-> "rejected", toast |-> "error"]
  /\ UNCHANGED <<myUpload, estVars, topVars, rfVars, rollArgs, rollRes, gen, drawn, kp, built, ocrVars, pureVars>>

MyUploadStart ==
  /\ myUpload.pc = "idle"
  /\ ~form.isOcrProcessingMy
  /\ \E file \in UploadFiles :
       CASE file = "image" ->
              /\ form' = [form EXCEPT !.isOcrProcessingMy = TRUE]
              /\ myUpload' = [pc |-> "await", ocr |-> "pending", toast |-> "none"]
         [] file = "none" -> UNCHANGED <<form, myUpload>>
         [] OTHER ->
              /\ myUpload' = [myUpload EXCEPT !.toast = "error"]
              /\ UNCHANGED form
  /\ UNCHANGED <<enemyUpload, estVars, topVars, rfVars, rollArgs, rollRes, gen, drawn, kp, built, ocrVars, pureVars>>

MyUploadResolve ==
  /\ myUpload.pc = "await"
  /\ \E res \in OcrResults :
       form' = MyFinally(MyFill(form, res))
  /\ myUpload' = [pc |-> "idle", ocr |-> "resolved", toast |-> "success"]
  /\ UNCHANGED <<enemyUpload, estVars, topVars, rfVars, rollArgs, rollRes, gen, drawn, kp, built, ocrVars, pureVars>>

MyUploadReject ==
  /\ myUpload.pc = "await"
  /\ form' = MyFinally(form)
  /\ myUpload' = [pc |-> "idle", ocr |-> "rejected", toast |-> "error"]
  /\ UNCHANGED <<enemyUpload, estVars, topVars, rfVars, rollArgs, rollRes, gen, drawn, kp, built, ocrVars, pureVars>>

\* onChange of the march size field: setMarchSize(e.target.value)
TypeMarchSize ==
  /\ \E typed \in TypedMarchSizes :
       /\ typed # form.marchSize
       /\ form' = [form EXCEPT !.marchSize = typed]
  /\ UNCHANGED <<enemyUpload, myUpload, estVars, topVars, rfVars, rollArgs, rollRes, gen, drawn, kp, built, ocrVars, pureVars>>

NextUpload ==
  \/ EnemyUploadStart
  \/ EnemyUploadResolve
  \/ EnemyUploadReject
  \/ MyUploadStart
  \/ MyUploadResolve
  \/ MyUploadReject
  \/ TypeMarchSize

SpecUpload == Init /\ [][NextUpload]_vars

(***************************************************************************)
(* The OCR utility: loadTesseract, its script element, and recognizeText   *)
(* with its worker.  tesseractPromise is "null" or the state of the one    *)
(* promise it holds; made counts the promises loadTesseract has made and   *)
(* scripts the script elements appended to the document.                   *)
(***************************************************************************)
\* Variant of loadTesseract: a rejected promise is not returned from the cache
loadTesseractRetry(t) ==
  IF t.tesseractPromise \notin {"null", "rejected"} THEN t
  ELSE IF t.windowTesseract
       THEN [t EXCEPT !.tesseractPromise = "fulfilled", !.made = @ + 1]
       ELSE [t EXCEPT !.tesseractPromise = "pending", !.made = @ + 1,
                      !.scripts = @ + 1, !.script = "loading"]

\* loadTesseract(): the module state after the call, which returns tesseractPromise
loadTesseract(t) ==
  IF t.tesseractPromise # "null" THEN t
  ELSE IF t.windowTesseract
       THEN [t EXCEPT !.tesseractPromise = "fulfilled", !.made = @ + 1]
       ELSE [t EXCEPT !.tesseractPromise = "pending", !.made = @ + 1,
                      !.scripts = @ + 1, !.script = "loading"]

otherVars ==
  <<estVars, topVars, rfVars, rollArgs, rollRes, gen, drawn, kp, built, formVars, pureVars>>

\* recognizeText(canvas) is called: it runs to its await of loadTesseract()
ReqStart(r) ==
  /\ reqs[r].pc = "idle"
  /\ tess' = loadTesseract(tess)
  /\ reqs' = [reqs EXCEPT ![r].pc = "load"]
  /\ UNCHANGED otherVars

\* Another script of the page defines window.Tesseract before the first OCR
TesseractPreloaded ==
  /\ tess.tesseractPromise = "null" /\ ~tess.windowTesseract
  /\ tess' = [tess EXCEPT !.windowTesseract = TRUE]
  /\ UNCHANGED <<reqs, otherVars>>

\* script.onload: the library has defined window.Tesseract, or it has not
ScriptOnload ==
  /\ tess.script = "loading"
  /\ \E defined \in BOOLEAN :
       tess' = [tess EXCEPT !.script = "loaded",
                            !.windowTesseract = defined,
                            !.tesseractPromise = IF defined THEN "fulfilled" ELSE "rejected"]
  /\ UNCHANGED <<reqs, otherVars>>

\* script.onerror
ScriptOnerror ==
  /\ tess.script = "loading"
  /\ tess' = [tess EXCEPT !.script = "error", !.tesseractPromise = "rejected"]
  /\ UNCHANGED <<reqs, otherVars>>

\* The await of loadTesseract() returns: Tesseract.createWorker('eng') is called
ReqLoaded(r) ==
  /\ reqs[r].pc = "load" /\ tess.tesseractPromise = "fulfilled"
  /\ reqs' = [reqs EXCEPT ![r].pc = "create"]
  /\ UNCHANGED <<tess, otherVars>>

\* The await of loadTesseract() throws: recognizeText rejects
ReqLoadFailed(r) ==
  /\ reqs[r].pc = "load" /\ tess.tesseractPromise = "rejected"
  /\ reqs' = [reqs EXCEPT ![r].pc = "failed"]
  /\ UNCHANGED <<tess, otherVars>>

\* createWorker resolves with a worker, and worker.recognize(canvas) is
\* called; or it rejects, and recognizeText rejects outside its try
ReqWorker(r) ==
  /\ reqs[r].pc = "create"
  /\ \E created \in BOOLEAN :
       reqs' = [reqs EXCEPT ![r] = IF created THEN [pc |-> "recognize", worker |-> "live"]
                                   ELSE [pc |-> "failed", worker |-> "none"]]
  /\ UNCHANGED <<tess, otherVars>>

\* worker.recognize settles either way: the finally block calls worker.terminate()
ReqRecognized(r) ==
  /\ reqs[r].pc = "recognize"
  /\ \E threw \in BOOLEAN :
       reqs' = [reqs EXCEPT ![r] = [pc |-> IF threw THEN "rethrow" ELSE "return",
                                    worker |-> "terminated"]]
  /\ UNCHANGED <<tess, otherVars>>

\* The await of worker.terminate() returns: recognizeText returns the text or rethrows
ReqEnd(r) ==
  /\ reqs[r].pc \in {"return", "rethrow"}
  /\ reqs' = [reqs EXCEPT ![r].pc = IF reqs[r].pc = "return" THEN "done" ELSE "failed"]
  /\ UNCHANGED <<tess, otherVars>>

NextOcr ==
  \/ \E r \in Requests : ReqStart(r)
  \/ TesseractPreloaded
  \/ ScriptOnload
  \/ ScriptOnerror
  \/ \E r \in Requests : ReqLoaded(r)
  \/ \E r \in Requests : ReqLoadFailed(r)
  \/ \E r \in Requests : ReqWorker(r)
  \/ \E r \in Requests : ReqRecognized(r)
  \/ \E r \in Requests : ReqEnd(r)

SpecOcr == Init /\ [][NextOcr]_vars


(***************************************************************************)
(* estimateWinPct called on sides that share their troops, and on a side   *)
(* whose troop sum passes 2^32                                             *)
(***************************************************************************)
SeedSims == 2

SeedSides ==
  { MkSide(30, 0, 10, Bonus(120, 80, 60, 90), SomeSpecial, 10, 5),
    MkSide(30, 0, 10, Bonus(100, 100, 100, 100), NoSpecial, 7, 2),
    MkSide(0, 0, 700000000, Bonus(100, 100, 100, 100), NoSpecial, 7, 2) }
SeedEnemies ==
  { MkSide(0, 25, 0, Bonus(60, 60, 60, 60), SomeSpecial, 6, 4),
    MkSide(0, 25, 0, Bonus(100, 100, 100, 100), NoSpecial, 11, 0) }

SeedCall ==
  /\ pc = "idle" /\ phase = "none" /\ ncalls < MaxCalls
  /\ \E m \in SeedSides, e \in SeedEnemies : EstBegin(m, e, 1, SeedSims, DefaultSqrtPower)
  /\ ret' = <<>>
  /\ UNCHANGED <<ncalls, memo, rfVars, rollVars>>

NextSeed ==
  \/ SeedCall
  \/ TrialStart
  \/ PressureMe
  \/ PressureEnemy
  \/ Sample
  \/ TopReturn

SpecSeed == Init /\ [][NextSeed]_vars

(***************************************************************************)
(* Properties                                                              *)
(***************************************************************************)
\* The gates of rollRngMultipliers in the order the spec gives them
GateOrder ==
  << [type |-> "infantry", gate |-> "infantry_tg"],
     [type |-> "cavalry",  gate |-> "cavalry_tier"],
     [type |-> "cavalry",  gate |-> "cavalry_tg"],
     [type |-> "archers",  gate |-> "archers_tier"],
     [type |-> "archers",  gate |-> "archers_tg"] >>

GateSatisfied(g, t, tier) ==
  /\ g.type = t
  /\ IF g.gate \in {"cavalry_tier", "archers_tier"} THEN tier.tier >= 7 ELSE tier.tg >= 3

GatesOf(t, tier) ==
  LET open == SelectSeq(GateOrder, LAMBDA g : GateSatisfied(g, t, tier))
  IN  [j \in 1..Len(open) |-> open[j].gate]

\* The generator's state after n draws from start
StreamAt(start, n) == WAdd(start, WMul(WFromInt(n), MbIncrement))

Indicator(b) == IF b THEN 1 ELSE 0

InUnitInterval(f) == f.den > 0 /\ 0 <= f.num /\ f.num <= f.den

\* C1: two calls of estimateWinPct with identical arguments return the
\* identical value, whatever calls were made before or in between: a call
\* that returns with the arguments of the driver's first call returns the
\* value the first call returned.
C1_Deterministic ==
  (pc = "idle" /\ ret # <<>> /\ memo # <<>> /\ memo[1].args = EstArgs)
    => ret[1] = memo[1].value

\* a third call repeats the first after a different second call, with
\* trials run and won
C1_Witness ==
  /\ pc = "idle" /\ ncalls = 3 /\ ret # <<>>
  /\ memo[1].args = EstArgs
  /\ sims = MaxSims /\ ret[1].num > 0

\* C2: every winPct lies in [0,1]: the value estimateWinPct returns, for
\* every sims it accepts, and the winPct of every RecommendResult.
C2_WinPctInUnitInterval ==
  /\ ret # <<>> => InUnitInterval(ret[1])
  /\ result # <<>> => InUnitInterval(result[1].winPct)

\* C3: throughout recommendFormation the running best has bestInf >= 0,
\* bestCav >= 0 and bestInf + bestCav <= 100, and every returned formation
\* has integer components in [0,100] that sum to 100, for known and unknown
\* battleTypeId and for every marchSize.
C3_FormationSumsTo100 ==
  /\ phase # "none" => bestInf >= 0 /\ bestCav >= 0 /\ bestInf + bestCav <= 100
  /\ result # <<>> =>
       /\ result[1].formation.infantry \in 0..100
       /\ result[1].formation.cavalry \in 0..100
       /\ result[1].formation.archers \in 0..100
       /\ result[1].formation.infantry + result[1].formation.cavalry
            + result[1].formation.archers = 100

\* a result for an unknown id whose best was found by the search
C3_Witness ==
  /\ phase = "done" /\ opts.battleTypeId \notin KnownIds /\ opts.marchSize > 0
  /\ Cardinality(seen) > 1
  /\ result[1].formation.cavalry # getFormationDefaults(opts.battleTypeId).cavalry

\* C4: when the best win rate of the coarse and refine search is at least
\* targetWin, no size is scanned and requiredMarchSize is null; a non-null
\* requiredMarchSize implies a returned winPct below targetWin.
C4_TargetMetNoScan ==
  /\ phase = "required" => FracLtPct(bestWin, TargetWinOf(opts))
  /\ (phase \in {"return", "done"} /\ ~FracLtPct(bestWin, TargetWinOf(opts)))
       => scans = <<>> /\ requiredMarchSize = <<>>
  /\ (result # <<>> /\ result[1].requiredMarchSize # <<>>)
       => FracLtPct(result[1].winPct, TargetWinOf(opts))

C4_Witness ==
  /\ phase = "done" /\ opts.marchSize > 0
  /\ FracGePct(result[1].winPct, TargetWinOf(opts))
  /\ result[1].requiredMarchSize = <<>> /\ scans = <<>>

\* The scales 1.1, 1.2, ..., 10.0
NumScales == 10 * MaxScale - 10

ScansAllBelow == \A j \in 1..Len(scans) : FracLtPct(scans[j].w, TargetWinOf(opts))

\* C5: when the best formation scores below targetWin at every scanned
\* size, the scan ends after the scale 10.0 and requiredMarchSize is null.
C5_ExhaustedScanIsNull ==
  /\ Len(scans) <= NumScales
  /\ (Len(scans) = NumScales /\ ScansAllBelow)
       => phase \in {"return", "done"} /\ requiredMarchSize = <<>>
  /\ (result # <<>> /\ scans # <<>> /\ ScansAllBelow)
       => result[1].requiredMarchSize = <<>> /\ Len(scans) = NumScales

C5_Witness ==
  /\ phase = "done" /\ opts.marchSize > 0
  /\ Len(scans) = NumScales /\ ScansAllBelow
  /\ result[1].requiredMarchSize = <<>>

\* C6: a non-null requiredMarchSize is round(marchSize * scale) for the
\* first scale of the increasing scan whose win rate is at least targetWin:
\* the scales before it scored below targetWin, and none is scanned after it.
C6_FirstScaleReachingTarget ==
  /\ \A j \in 1..Len(scans) :
       /\ scans[j].k = j - 1
       /\ scans[j].size = RoundScaled(opts.marchSize, j - 1)
       /\ j < Len(scans) => FracLtPct(scans[j].w, TargetWinOf(opts))
  /\ requiredMarchSize # <<>> =>
       /\ scans # <<>>
       /\ FracGePct(scans[Len(scans)].w, TargetWinOf(opts))
       /\ requiredMarchSize[1] = scans[Len(scans)].size
       /\ phase \in {"return", "done"}
  /\ (result # <<>> /\ scans # <<>> /\ FracGePct(scans[Len(scans)].w, TargetWinOf(opts)))
       => result[1].requiredMarchSize = <<scans[Len(scans)].size>>

C6_Witness ==
  /\ phase = "done" /\ result[1].requiredMarchSize # <<>>
  /\ Len(scans) > 1
  /\ result[1].requiredMarchSize[1] > opts.marchSize

SplitOf(infPct, cavPct) ==
  [infantry |-> infPct, cavalry |-> cavPct, archers |-> 100 - infPct - cavPct]

\* The default split as the spec gives it
SpecDefaultSplit(id) == IF id \in {1, 2} THEN SplitOf(50, 20) ELSE SplitOf(60, 20)

\* C7 as stated: a candidate replaces the running best only if strictly
\* greater, and so the formation returned for a grid whose candidates all
\* score 0, or all score the same win rate, is the default split of the
\* battle type.
C7_DefaultSurvivesTiedGrid ==
  (result # <<>> /\ opts.battleTypeId \in KnownIds /\ Cardinality(seen) = 1)
    => result[1].formation = SpecDefaultSplit(opts.battleTypeId)

\* What a grid of one win rate returns: the default split when that rate
\* is 0, the first candidate of the coarse grid, (0, 0, 100), otherwise
TiedGridOutcome ==
  (result # <<>> /\ opts.battleTypeId \in KnownIds /\ Cardinality(seen) = 1)
    => /\ result[1].winPct \in seen \/ result[1].winPct = Frac(0, 1)
       /\ IF \A w \in seen : w.num = 0
          THEN /\ result[1].formation = SpecDefaultSplit(opts.battleTypeId)
               /\ result[1].winPct.num = 0
          ELSE /\ result[1].formation = SplitOf(0, 0)
               /\ result[1].winPct \in seen

\* C7, amended: in the coarse and refine phases the running best changes
\* only to a candidate whose win rate is strictly greater; when every
\* candidate scores 0 the default split is returned, and when every
\* candidate scores the same positive win rate the first candidate of the
\* coarse grid, (0, 0, 100), is returned.
C7_StrictReplacement ==
  [][ /\ (phase \in {"coarse", "refine"}
            /\ <<bestWin, bestInf, bestCav>>' # <<bestWin, bestInf, bestCav>>)
          => /\ FracGt(bestWin', bestWin)
             /\ bestWin' = Frac(wins, sims)
             /\ bestInf' = inf /\ bestCav' = cav
      /\ TiedGridOutcome' ]_vars

\* an all-zero grid of a garrison defense returns (60, 20, 20)
C7_Witness ==
  /\ phase = "done" /\ opts.battleTypeId = 3 /\ opts.marchSize > 0
  /\ seen = {Frac(0, DefaultSims)}
  /\ result[1].formation = SplitOf(60, 20)

\* C8: for an id the catalog does not hold, estimateWinPct and
\* recommendFormation return exactly what they return for battleTypeId 1
\* on the same other inputs.
C8_UnknownIdAsId1 ==
  /\ (pc = "idle" /\ ret # <<>> /\ memo # <<>> /\ battleTypeId \notin KnownIds
        /\ memo[1].args = [EstArgs EXCEPT !.battleTypeId = 1])
       => ret[1] = memo[1].value
  /\ (phase = "done" /\ prev # <<>>) => result = prev

\* C9: one call of rollRngMultipliers draws once per satisfied gate, in the
\* order infantry-tg, cavalry-tier, cavalry-tg, archers-tier, archers-tg:
\* [tg >= 3] draws for infantry, [tier >= 7] + [tg >= 3] for cavalry and
\* for archers, and none for a gate of another type or an unmet condition.
C9_OneDrawPerGate ==
  rollRes # <<>> =>
    LET r == rollRes[1]
        a == rollArgs
        start == mulberry32(WFromInt(a.seed))
    IN  /\ [j \in 1..Len(r.draws) |-> r.draws[j].gate] = GatesOf(a.t, a.tier)
        /\ Len(r.draws) = IF a.t = "infantry" THEN Indicator(a.tier.tg >= 3)
                          ELSE Indicator(a.tier.tier >= 7) + Indicator(a.tier.tg >= 3)
        /\ \A j \in 1..Len(r.draws) : r.draws[j].at = StreamAt(start, j - 1)
        /\ r.rng = StreamAt(start, Len(r.draws))

C9_Witness ==
  /\ rollRes # <<>> /\ rollArgs.t = "cavalry"
  /\ rollArgs.tier.tier >= 7 /\ rollArgs.tier.tg >= 3
  /\ Len(rollRes[1].draws) = 2

\* The draws one attacker's abilities make, by the spec: for each type in
\* the order infantry, cavalry, archers with troops > 0, its satisfied gates
AttackerDraws(who, side) ==
  LET Of(t) == IF side.troops[t] > 0
               THEN [j \in 1..Len(GatesOf(t, side.tier)) |->
                       [who |-> who, type |-> t, gate |-> GatesOf(t, side.tier)[j]]]
               ELSE <<>>
  IN  Of("infantry") \o Of("cavalry") \o Of("archers")

TrialDraws ==
  AttackerDraws("me", me) \o AttackerDraws("enemy", enemy)
    \o <<[who |-> "sample", type |-> "none", gate |-> "win"]>>

\* C10: within one trial all draws come from the trial's own stream, in the
\* order: abilities of me as attacker for infantry, cavalry, archers (types
\* with troops > 0 only), abilities of the enemy as attacker likewise, then
\* one win-sample draw; a type with no troops draws nothing.
C10_DrawOrder ==
  (pc \in {"me", "enemy", "sample"} \/ (pc = "loop" /\ i > 0)) =>
    LET start == mulberry32(WAdd(seed, WMul(WFromInt(IF pc = "loop" THEN i - 1 ELSE i),
                                            WFromInt(TrialStride))))
        n == Len(draws)
    IN  /\ n <= Len(TrialDraws)
        /\ \A j \in 1..n :
             /\ draws[j].at = StreamAt(start, j - 1)
             /\ [who |-> draws[j].who, type |-> draws[j].type, gate |-> draws[j].gate]
                  = TrialDraws[j]
        /\ rng = StreamAt(start, n)
        /\ pc = "enemy" /\ tix = 1 => n = Len(AttackerDraws("me", me))
        /\ pc = "sample" => n = Len(TrialDraws) - 1
        /\ pc = "loop" => n = Len(TrialDraws)

\* the second trial of a call is over; me has no cavalry, the enemy
\* cavalry only
C10_Witness ==
  /\ pc = "loop" /\ i = 2
  /\ me.troops.cavalry = 0 /\ enemy.troops.infantry = 0
  /\ Len(draws) = 5

\* The state of the generator the current trial started from
TrialStartState == IF draws = <<>> THEN rng ELSE draws[1].at

\* (a + 3b + 7c + d + 5e + 11f + i * 9973) mod 2^32 as a word, by addition
\* in base 2^16: the sums of the high and of the low halves, then one carry
SeedWord(mine, theirs, trial) ==
  LET Hi(n) == n \div H16
      Lo(n) == n % H16
      los == Lo(mine.infantry) + 3 * Lo(mine.cavalry) + 7 * Lo(mine.archers)
               + Lo(theirs.infantry) + 5 * Lo(theirs.cavalry) + 11 * Lo(theirs.archers)
               + Lo(trial * TrialStride)
      his == Hi(mine.infantry) + 3 * Hi(mine.cavalry) + 7 * Hi(mine.archers)
               + Hi(theirs.infantry) + 5 * Hi(theirs.cavalry) + 11 * Hi(theirs.archers)
               + Hi(trial * TrialStride)
  IN  <<(his + (los \div H16)) % H16, los % H16>>

\* C11: the stream of trial i depends only on the six troop counts and i:
\* seed is me.inf + 3 me.cav + 7 me.arch + enemy.inf + 5 enemy.cav +
\* 11 enemy.arch modulo 2^32, trial i starts from seed + i * 9973, and a
\* call whose sides have the troops of the first call's sides starts every
\* trial from the state the first call's trial started from.
C11_SeedFromTroops ==
  /\ pc # "idle" => seed = SeedWord(me.troops, enemy.troops, 0)
  /\ pc \in {"me", "enemy", "sample"} =>
       /\ TrialStartState = SeedWord(me.troops, enemy.troops, i)
       /\ (memo # <<>> /\ memo[1].args.me.troops = me.troops
             /\ memo[1].args.enemy.troops = enemy.troops)
            => TrialStartState = TrialRng(TroopSeed(memo[1].args.me, memo[1].args.enemy), i)

\* the second trial of a call whose sides have the troops of the first
\* call's sides and other bonuses, special and tier
C11_Witness ==
  /\ pc = "sample" /\ i = 1 /\ memo # <<>>
  /\ memo[1].args.me.troops = me.troops /\ memo[1].args.enemy.troops = enemy.troops
  /\ memo[1].args.me.bonuses # me.bonuses /\ memo[1].args.me.special # me.special
  /\ memo[1].args.me.tier # me.tier /\ memo[1].args.enemy.tier # enemy.tier

\* C12: every draw adds 0x6D2B79F5 to the seed, mixes the seed's low 32
\* bits by the three statements, and returns num / 2^32 with
\* 0 <= num < 2^32, so a value in [0,1), never 1 and never negative, for
\* negative seeds and seeds beyond 32 bits as well.
C12_DrawInUnitInterval ==
  \A j \in 1..Len(drawn) :
    LET d == drawn[j]
        after == IF j < Len(drawn) THEN drawn[j + 1].from ELSE gen
    IN  /\ d.num[1] \in 0..(H16 - 1) /\ d.num[2] \in 0..(H16 - 1)
        /\ after = WideAdd(d.from, MbIncrement)
        /\ d.num = MbOut(ToUint32(d.from))
        /\ ToUint32(after) = MbNext(ToUint32(d.from))

\* a closure made with a negative seed has drawn a fraction of at least
\* 1/2 (a negative signed word) from a seed that has passed 2^32
C12_Witness ==
  /\ Len(drawn) >= 3 /\ drawn[1].from[1] < 0
  /\ \E j \in 1..Len(drawn) : drawn[j].from[1] >= H16 /\ drawn[j].num[1] >= 32768

\* Where two calls differ in place, the first has the smaller value there
KpRising(place) == place \in {"n", "atk", "leth", "dmgMult"}

\* C13: killsPressure is non-decreasing in each of n, atk, leth, dmgMult
\* and non-increasing in each of def, hp, tankMult, the other arguments
\* held fixed, for stat multipliers of any sign.
C13_PressureMonotonic ==
  kp # <<>> =>
    IF KpRising(kp[1].place) THEN FLe(kp[1].vlo, kp[1].vhi) ELSE FLe(kp[1].vhi, kp[1].vlo)

NoTroops(side) ==
  side.troops.infantry = 0 /\ side.troops.cavalry = 0 /\ side.troops.archers = 0

\* The attacker and the defender of the call of sidePressureOnce under way
Attacker == IF pc = "me" THEN me ELSE enemy
Defender == IF pc = "me" THEN enemy ELSE me

\* What the calls of killsPressure of the current pass of sidePressureOnce
\* give for the defender type d, were the tank roll tankMult
PassKills(d, tankMult) ==
  LET t == PressureOrder[tix]
      us == unitStats(Attacker, t)
  IN  killsPressure(Attacker.troops[t], us[1], us[3], DefStats[d][2], DefStats[d][4],
                    FOne, tankMult, sqrtPower)

\* C14: killsPressure returns 0 when n <= 0, its divisor is never below the
\* floor 1e-9, also when def * hp * tankMult is 0 or negative, and a side
\* whose three troop counts are 0 has total pressure 0 in every trial.
C14_DegenerateNumbers ==
  /\ pc \in {"me", "enemy"} =>
       \A d \in {"infantry", "cavalry", "archers"}, tankMult \in {FOne, FRat(106, 100)} :
         /\ Attacker.troops[PressureOrder[tix]] <= 0 => PassKills(d, tankMult) = FZero
         /\ FLe(FRat(1, 1000000000), killsDenom(DefStats[d][2], DefStats[d][4], tankMult))
         /\ killsDenom(DefStats[d][2], DefStats[d][4], tankMult)[1] > 0
  /\ (pc = "me" /\ NoTroops(me)) => total = FZero
  /\ (pc \in {"enemy", "sample"} /\ NoTroops(me)) => pMe = FZero
  /\ (pc = "enemy" /\ NoTroops(enemy)) => total = FZero
  /\ (pc = "sample" /\ NoTroops(enemy)) => pEn = FZero

\* the second trial of a side without troops against a defender whose
\* def * hp is 0: the enemy's pressure is not 0, the side's is
C14_Witness ==
  /\ pc = "sample" /\ i = 1 /\ NoTroops(me) /\ ~NoTroops(enemy)
  /\ pMe = FZero /\ pEn[1] # 0
  /\ FMul(DefStats["cavalry"][2], DefStats["cavalry"][4]) = FZero

\* The defender's stats debuffed as the spec words it: attack and defense
\* times 1 + pct / 100 with the sign of pct, lethality and health times
\* 1 - |pct| / 100
SpecDebuffed(att, dfn, d) ==
  LET u == unitStats(dfn, d)
      s == att.special
      Mag(x) == IF x < 0 THEN 0 - x ELSE x
  IN  << FMul(u[1], FAdd(FOne, FRat(s.enemy_squads_atk, 100))),
         FMul(u[2], FAdd(FOne, FRat(s.enemy_squads_dfn, 100))),
         FMul(u[3], FSub(FOne, FRat(Mag(s.enemy_leth_pen), 100))),
         FMul(u[4], FSub(FOne, FRat(Mag(s.enemy_hp_pen), 100))) >>

\* C15: the defender's lethality and health are debuffed by the magnitude
\* of enemy_leth_pen and enemy_hp_pen: negating either leaves the debuffed
\* stats, and so the value of estimateWinPct, as they are; enemy_squads_dfn
\* and enemy_squads_atk act with their sign.
C15_PenaltyByMagnitude ==
  /\ pc \in {"me", "enemy"} =>
       /\ DefStats = DebuffedStats(NegPens(Attacker), Defender)
       /\ \A d \in {"infantry", "cavalry", "archers"} :
            /\ DefStats[d] = SpecDebuffed(Attacker, Defender, d)
            /\ Attacker.special.enemy_squads_dfn # 0
                 => /\ DebuffedStats(NegSquads(Attacker), Defender)[d][2] # DefStats[d][2]
                    /\ DebuffedStats(NegSquads(Attacker), Defender)[d][1] # DefStats[d][1]
  /\ (pc = "idle" /\ ret # <<>> /\ memo # <<>>
        /\ memo[1].args = [EstArgs EXCEPT !.me = NegPens(me)])
       => ret[1] = memo[1].value

\* a call has returned whose side me is that of the first call with both
\* penalties negated, after trials were won and lost
C15_Witness ==
  /\ pc = "idle" /\ ret # <<>> /\ memo # <<>> /\ ncalls >= 2
  /\ memo[1].args = [EstArgs EXCEPT !.me = NegPens(me)]
  /\ me.special.enemy_leth_pen > 0 /\ me.special.enemy_hp_pen < 0
  /\ enemy.special.enemy_leth_pen < 0

\* C16: recommendFormation and estimateWinPct leave their input Sides as
\* they are: during a call opts.my and opts.enemy do not change, a call of
\* estimateWinPct does not change me or enemy, and every candidate Side of
\* the coarse, refine and required-size phases has the bonuses, special
\* and tier of my, with the enemy passed on as it is.
C16_InputsUntouched ==
  [][ /\ phase \notin {"none", "done"} => opts' = opts
      /\ pc # "idle" => me' = me /\ enemy' = enemy
      /\ (pc' # "idle" /\ phase' \in {"coarse", "refine", "required"})
           => /\ me'.bonuses = opts'.my.bonuses
              /\ me'.special = opts'.my.special
              /\ me'.tier = opts'.my.tier
              /\ enemy' = opts'.enemy ]_vars

\* the win sample of a candidate of the scan, whose troops are not my's
C16_Witness ==
  /\ pc = "sample" /\ phase = "required" /\ k > 0
  /\ me.troops # opts.my.troops /\ me.bonuses = opts.my.bonuses

\* C17: for every manual entry the form's validation accepts (total > 0,
\* infPct >= 0, cavPct >= 0, infPct + cavPct <= 100) the Side built by
\* buildEnemyFromManual has counts of infantry, cavalry and archers that
\* are each >= 0.
C17_ManualCountsNonNegative ==
  (built # <<>> /\ built[1].manual # <<>>) =>
    /\ built[1].side.troops.infantry >= 0
    /\ built[1].side.troops.cavalry >= 0
    /\ built[1].side.troops.archers >= 0

\* s holds a token: the letters, white space or none, then a digit
HasToken(s, letters) ==
  \E p \in 1..Len(s), q \in 1..Len(s) :
    /\ p + Len(letters) <= q
    /\ \A j \in 1..Len(letters) : SameLetter(s[p + j - 1], letters[j])
    /\ \A j \in (p + Len(letters))..(q - 1) : s[j] = " "
    /\ IsDigit(s[q])

\* C18: every Side a builder returns has tier in [1,11] and tg in [0,5]:
\* parseTierString clamps the tier to [1,11] and the tg to [0,5] for every
\* string, and gives tier 10 and tg 5 when the token is absent.
C18_TierClamped ==
  built # <<>> =>
    /\ built[1].side.tier.tier \in 1..11
    /\ built[1].side.tier.tg \in 0..5
    /\ ~HasToken(built[1].tierText, <<"t">>) => built[1].side.tier.tier = 10
    /\ ~HasToken(built[1].tierText, <<"t", "g">>) => built[1].side.tier.tg = 5
    /\ built[1].side.tier = parseTierString(built[1].tierText)

\* a text whose tier token, 19, is beyond the range and that has no tg token
C18_Witness ==
  /\ built # <<>> /\ built[1].tierText = <<"T", "1", "9", "g", "9">>
  /\ built[1].side.tier = [tier |-> 11, tg |-> 5]

\* Two win rates are the same number
FracEq(a, b) == a.num * b.den = b.num * a.den

\* C19: recommendFormation called with marchSize = 0: every candidate Side
\* of every phase has no troops, all candidates score one win rate, the
\* returned winPct is that rate, the returned troops are 0 and
\* requiredMarchSize is null.
C19_ZeroMarchSize ==
  (phase # "none" /\ opts.marchSize = 0) =>
    /\ pc # "idle" => NoTroops(me)
    /\ \A v \in seen, w \in seen : FracEq(v, w)
    /\ \A j \in 1..Len(scans) :
         scans[j].size = 0 /\ \A v \in seen : FracEq(scans[j].w, v)
    /\ requiredMarchSize = <<>>
    /\ result # <<>> =>
         /\ \A v \in seen : FracEq(result[1].winPct, v)
         /\ result[1].troops = [infantry |-> 0, cavalry |-> 0, archers |-> 0]
         /\ result[1].requiredMarchSize = <<>>

\* a call with marchSize 0 against an enemy with troops has returned after
\* scanning every scale
C19_Witness ==
  /\ phase = "done" /\ opts.marchSize = 0 /\ ~NoTroops(opts.enemy)
  /\ seen # {} /\ Len(scans) = NumScales
  /\ result[1].requiredMarchSize = <<>>

\* What My Troops and Enemy Troops each own of the form
MyFields(f) == <<f.myScoutPaste, f.myTier, f.myTG, f.isOcrProcessingMy>>
EnemyFields(f) == <<f.scoutPaste, f.enemyTier, f.enemyTG, f.isOcrProcessingEnemy>>

\* C20: under every interleaving of the two upload handlers a step of the
\* enemy upload leaves myScoutPaste, myTier, myTG and isOcrProcessingMy as
\* they are, and a step of the my-troops upload leaves scoutPaste,
\* enemyTier, enemyTG and isOcrProcessingEnemy as they are.
C20_UploadsIndependent ==
  [][ /\ (enemyUpload' # enemyUpload \/ myUpload' = myUpload)
           => MyFields(form') = MyFields(form)
      /\ (myUpload' # myUpload \/ enemyUpload' = enemyUpload)
           => EnemyFields(form') = EnemyFields(form) ]_vars

\* both handlers wait for their OCR after each has filled its fields once
C20_Witness ==
  /\ enemyUpload.pc = "await" /\ myUpload.pc = "await"
  /\ form.scoutPaste = "scout A" /\ form.myScoutPaste = "scout B"
  /\ form.enemyTier = "7" /\ form.myTier = "10" /\ form.myTG = "3"

\* What a failed OCR must leave alone on either side
UploadData(f) ==
  <<f.scoutPaste, f.myScoutPaste, f.marchSize, f.enemyTier, f.enemyTG,
    f.myTier, f.myTG, f.debugInfo>>

\* C21: when extractScoutFromImage rejects, the handler that awaited it
\* reports an error, leaves scout text, march size, tier, TG and debug info
\* as they were and sets its processing flag to false; a handler that is
\* not running never holds its flag, so its input takes the next upload.
C21_OcrFailureHandled ==
  [][ /\ (enemyUpload.pc = "await" /\ enemyUpload'.ocr = "rejected")
           => /\ enemyUpload'.toast = "error"
              /\ UploadData(form') = UploadData(form)
              /\ ~form'.isOcrProcessingEnemy
              /\ enemyUpload'.pc = "idle"
      /\ (myUpload.pc = "await" /\ myUpload'.ocr = "rejected")
           => /\ myUpload'.toast = "error"
              /\ UploadData(form') = UploadData(form)
              /\ ~form'.isOcrProcessingMy
              /\ myUpload'.pc = "idle" ]_vars

\* both handlers have ended on a failed OCR, the enemy's on a form an earlier upload filled
C21_Witness ==
  /\ myUpload.ocr = "rejected"
  /\ enemyUpload.ocr = "rejected" /\ enemyUpload.pc = "idle"
  /\ ~form.isOcrProcessingEnemy
  /\ form.scoutPaste = "scout A" /\ form.marchSize = "100" /\ form.enemyTier = "7"

\* C28: when the enemy upload applies its OCR result to a form whose march
\* size field is not empty, the field keeps its value unless the result
\* holds an explicit march size: the recognised troop total never replaces
\* what was typed or filled in while the OCR was in flight.
C28_TotalFillsOnlyEmptyField ==
  [][ (enemyUpload.pc = "await" /\ enemyUpload'.ocr = "resolved" /\ form.marchSize # "")
        => form'.marchSize \in {form.marchSize} \cup OcrMarchSizes ]_vars

\* C30: loadTesseract makes one promise and appends at most one script
\* element however many calls of recognizeText there are; once that promise
\* is rejected no call gets past it and no worker exists; and a call that
\* has left its try block, by return or by throw, has terminated its worker.
C30_OneScriptWorkersTerminated ==
  /\ tess.made <= 1 /\ tess.scripts <= tess.made
  /\ (tess.tesseractPromise = "null") = (tess.made = 0)
  /\ tess.tesseractPromise = "rejected"
       => \A r \in Requests : reqs[r].pc \in {"idle", "load", "failed"} /\ reqs[r].worker = "none"
  /\ \A r \in Requests :
       reqs[r].pc \in {"return", "rethrow", "done", "failed"} => reqs[r].worker # "live"

\* every call has failed on the one script whose load failed
C30_Witness ==
  /\ tess.scripts = 1 /\ tess.script = "error" /\ tess.tesseractPromise = "rejected"
  /\ \A r \in Requests : reqs[r].pc = "failed"

\* |a - b| is within the rounding of a few floating point operations on b
FNear(a, b) ==
  IF FLt(a, b) THEN FLe(FSub(b, a), FMul(b, FRat(1, 1024)))
  ELSE FLe(FSub(a, b), FMul(b, FRat(1, 1024)))

\* The raw weights are ratio * matchup, with ratios of 1/3 for no troops
RawWeightsAsStated(x) ==
  /\ \A u \in {"infantry", "cavalry", "archers"} : x.raw[u] = FMul(x.enemyR[u], MATCHUP[x.type][u])
  /\ (x.troops.infantry + x.troops.cavalry + x.troops.archers = 0)
       => \A u \in {"infantry", "cavalry", "archers"} : x.enemyR[u] = FRat(1, 3)

\* What the shift moved: nothing, or min(weight[infantry], backlineShift)
ShiftTaken(x) ==
  IF x.type = "cavalry" /\ FLt(FZero, x.cavBackline)
  THEN FMin(x.raw.infantry, x.cavBackline) ELSE FZero

ShiftAsStated(x) ==
  /\ x.w.infantry = FSub(x.raw.infantry, ShiftTaken(x))
  /\ x.w.archers = FAdd(x.raw.archers, ShiftTaken(x))
  /\ x.w.cavalry = x.raw.cavalry
  /\ FLe(FZero, x.w.infantry)

NormNonNegative(x) ==
  x.norm # <<>> => \A u \in {"infantry", "cavalry", "archers"} : FLe(FZero, x.norm[1][u])

\* C22 as stated: the shift leaves the sum of the raw weights as it was and
\* the normalised weights sum to 1, both as equalities of the numbers the
\* code holds.
C22_WeightsExact ==
  weights # <<>> =>
    /\ RawWeightsAsStated(weights[1]) /\ ShiftAsStated(weights[1]) /\ NormNonNegative(weights[1])
    /\ weights[1].sum = WeightSum(weights[1].raw)
    /\ weights[1].norm # <<>> => WeightSum(weights[1].norm[1]) = FOne

\* C22: the raw weights are defenderRatio * matchup (ratios 1/3 each for a
\* defender without troops); the cavalry shift moves min(weight[infantry],
\* backlineShift) from infantry to archers and leaves infantry >= 0; the
\* sum of the weights is that of the raw weights, and the normalised
\* weights of a type that is not skipped are >= 0 and sum to 1, in both
\* cases up to the rounding of the floating point operations.
C22_WeightsUpToRounding ==
  weights # <<>> =>
    /\ RawWeightsAsStated(weights[1]) /\ ShiftAsStated(weights[1]) /\ NormNonNegative(weights[1])
    /\ FNear(weights[1].sum, WeightSum(weights[1].raw))
    /\ weights[1].norm # <<>> => FNear(WeightSum(weights[1].norm[1]), FOne)

\* cavalry attacks with a backline shift larger than the infantry weight
C22_Witness ==
  /\ weights # <<>>
  /\ weights[1].type = "cavalry" /\ FLt(FZero, weights[1].cavBackline)
  /\ FLt(FZero, weights[1].raw.infantry) /\ FLt(weights[1].raw.infantry, weights[1].cavBackline)
  /\ weights[1].w.infantry = FZero /\ weights[1].norm # <<>>

\* How many candidates the coarse loops ran for
CoarseLen == Cardinality({j \in 1 .. Len(evals) : EvalPhase(evals[j]) = "coarse"})

\* The greatest win rate among the first n candidates
MaxWin(n) ==
  CHOOSE w \in {EvalWin(evals[j]) : j \in 1 .. n} :
    \A v \in {EvalWin(evals[j]) : j \in 1 .. n} : ~FracGt(v, w)

\* The candidates from the j-th on that scored w, and the first of them
ScoredAt(w, j) == {h \in j .. Len(evals) : FracEq(EvalWin(evals[h]), w)}
FirstWith(w, j) == CHOOSE h \in ScoredAt(w, j) : \A g \in ScoredAt(w, j) : h <= g

\* The running best after the first n candidates, by strictly greater
\* replacement from the default split at a win rate of 0
BestAfter(n) ==
  IF n = 0 \/ MaxWin(n).num = 0
  THEN [inf |-> getFormationDefaults(opts.battleTypeId).infantry,
        cav |-> getFormationDefaults(opts.battleTypeId).cavalry, w |-> Frac(0, 1)]
  ELSE [inf |-> EvalInf(evals[FirstWith(MaxWin(n), 1)]),
        cav |-> EvalCav(evals[FirstWith(MaxWin(n), 1)]), w |-> MaxWin(n)]

\* [c - 6, c + 6] held within [0, 100]
Within6(c) ==
  (IF c - 6 < 0 THEN 0 ELSE c - 6) .. (IF c + 6 > 100 THEN 100 ELSE c + 6)

\* The pairs of the window around (ci, cb) that are not skipped
RefinePairs(ci, cb) == {p \in Within6(ci) \X Within6(cb) : p[1] + p[2] <= 100}

PairBefore(p, q) == p[1] < q[1] \/ (p[1] = q[1] /\ p[2] < q[2])

\* The refine loops have run for exactly the pairs of `pairs` that come
\* before `next`, each once and in the order of the loops
RefinedUpTo(pairs, n, next) ==
  /\ \A j \in n + 1 .. Len(evals) :
       /\ EvalPhase(evals[j]) = "refine"
       /\ <<EvalInf(evals[j]), EvalCav(evals[j])>> \in pairs
       /\ j > n + 1 => PairBefore(<<EvalInf(evals[j - 1]), EvalCav(evals[j - 1])>>, <<EvalInf(evals[j]), EvalCav(evals[j])>>)
  /\ Len(evals) - n = Cardinality({p \in pairs : next = <<>> \/ PairBefore(p, next)})

\* C23: the refine phase runs, in steps of 1, for every pair of
\* [best-6, best+6] x [best-6, best+6] held within [0,100] with
\* inf + cav <= 100 and for no other, where best is the running best at the
\* end of the coarse phase whatever the refine phase replaces; the running
\* best changes by strictly greater replacement; the formation returned is
\* within 6 of the coarse best in infantry and in cavalry.
C23_RefineWindowFixed ==
  (pc = "idle" /\ phase \in {"refine", "required", "return", "done"}) =>
    /\ window.infMin .. window.infMax = Within6(BestAfter(CoarseLen).inf)
    /\ window.cavMin .. window.cavMax = Within6(BestAfter(CoarseLen).cav)
    /\ RefinedUpTo(RefinePairs(BestAfter(CoarseLen).inf, BestAfter(CoarseLen).cav), CoarseLen,
                   IF phase = "refine" THEN <<inf, cav>> ELSE <<>>)
    /\ <<bestInf, bestCav, bestWin.num>> =
         <<BestAfter(Len(evals)).inf, BestAfter(Len(evals)).cav, BestAfter(Len(evals)).w.num>>
    /\ result # <<>> =>
         /\ result[1].formation.infantry \in Within6(BestAfter(CoarseLen).inf)
         /\ result[1].formation.cavalry \in Within6(BestAfter(CoarseLen).cav)

\* the refine phase of a window held at 0 has replaced the coarse best
C23_Witness ==
  /\ phase = "done" /\ result # <<>>
  /\ window.infMin = 0 /\ BestAfter(CoarseLen).inf < 6
  /\ result[1].formation.infantry # BestAfter(CoarseLen).inf
  /\ result[1].formation.cavalry # BestAfter(CoarseLen).cav

\* The calls of estimateWinPct the search made for the formation returned
CallsOnReturned ==
  {j \in 1 .. Len(evals) :
     /\ EvalInf(evals[j]) = result[1].formation.infantry
     /\ EvalCav(evals[j]) = result[1].formation.cavalry}

\* C24: the winPct returned is the greatest win rate of the candidates of
\* the coarse and refine phases and is what estimateWinPct returned for the
\* troops returned, which are the returned formation at the original march
\* size; the formation is that of the first candidate, in the order they
\* were run, that scored this win rate, or the default split when none
\* scored above 0.
C24_ReturnsFirstMaximum ==
  result # <<>> =>
    /\ FracEq(result[1].winPct, MaxWin(Len(evals)))
    /\ \A j \in 1 .. Len(evals) : ~FracGt(EvalWin(evals[j]), result[1].winPct)
    /\ result[1].troops =
         TestSide(opts.my, opts.marchSize, result[1].formation.infantry,
                  result[1].formation.cavalry, result[1].formation.archers).troops
    /\ CallsOnReturned # {}
    /\ \A j \in CallsOnReturned : FracEq(EvalWin(evals[j]), result[1].winPct)
    /\ result[1].formation.archers = 100 - result[1].formation.infantry - result[1].formation.cavalry
    /\ IF \E j \in 1 .. Len(evals) : EvalWin(evals[j]).num > 0
       THEN /\ result[1].formation.infantry = EvalInf(evals[FirstWith(result[1].winPct, 1)])
            /\ result[1].formation.cavalry = EvalCav(evals[FirstWith(result[1].winPct, 1)])
       ELSE /\ result[1].formation.infantry = getFormationDefaults(opts.battleTypeId).infantry
            /\ result[1].formation.cavalry = getFormationDefaults(opts.battleTypeId).cavalry

\* the formation returned was found in the refine phase, and candidates
\* run after it scored as much
C24_Witness ==
  /\ result # <<>> /\ result[1].winPct.num > 0
  /\ EvalPhase(evals[FirstWith(result[1].winPct, 1)]) = "refine"
  /\ \E j \in 1 .. Len(evals) :
       j > FirstWith(result[1].winPct, 1) /\ FracEq(EvalWin(evals[j]), result[1].winPct)

\* The arguments of a call with enemy_squads_atk and enemy_leth_pen of both
\* sides blanked
Blanked(args) ==
  [args EXCEPT !.me = WithAtkLeth(@, 0, 0), !.enemy = WithAtkLeth(@, 0, 0)]

PassType == PressureOrder[tix]
OwnShield ==
  PassType = "infantry" /\ Attacker.tier.tg >= 3 /\ DrawBelowPct(MbOut(rng), 25)

\* What the pass adds for the roll proc of the attacker's type, were the
\* tank multiplier tankMult
PassAdds(proc, tankMult) ==
  AddRolled([total |-> FZero, rng |-> rng, draws |-> <<>>],
            Attacker.troops[PassType], unitStats(Attacker, PassType), DefStats,
            FMul(proc.dmg, FindBattleType(battleTypeId).extraSkillFactor), tankMult, sqrtPower,
            TargetWeights(enemyR, PassType, proc.cavBackline)).total

\* No divisor of the pass is held at the floor 1e-9
NoFloor ==
  \A d \in {"infantry", "cavalry", "archers"} :
    FLt(FRat(1, 1000000000), FMul(DefStats[d][2], DefStats[d][4]))

RoundedShare(m, pct) == (m * pct + 50) \div 100

\* C27: the troop counts returned by recommendFormation are each
\* round(marchSize * pct / 100) of the returned formation, are non-negative,
\* and their sum differs from marchSize by at most 1.
C27_CountsAreRoundedShares ==
  result # <<>> =>
    /\ \A t \in {"infantry", "cavalry", "archers"} :
         /\ result[1].troops[t] = RoundedShare(opts.marchSize, result[1].formation[t])
         /\ result[1].troops[t] >= 0
    /\ result[1].troops.infantry + result[1].troops.cavalry + result[1].troops.archers
         \in (opts.marchSize - 1) .. (opts.marchSize + 1)

\* The paste has a troop-count line for the type t: a line that is not a
\* stat-bonus line, names the type and has a number on it or on the next line
HasTroopLine(lines, t) ==
  \E j \in 1 .. Len(lines) :
    /\ lines[j].kind \in {"name", "troop"}
    /\ KeywordOf(t) \in lines[j].kw
    /\ LineVal(lines, j) # <<>>

\* C29: parseScoutPaste returns 0 for every troop type without a troop-count
\* line in the text; a paste of stat-bonus lines only yields troops {0,0,0}
\* and handleCalculate then takes the march size of the March Size field.
C29_NoTroopLineGivesZero ==
  (pasted.stage = "calculated" /\ pasted.myScoutPaste # <<>>) =>
    /\ \A t \in {"infantry", "cavalry", "archers"} :
         ~HasTroopLine(pasted.myScoutPaste, t) => pasted.troops[1][t] = 0
    /\ (\A j \in 1 .. Len(pasted.myScoutPaste) : pasted.myScoutPaste[j].kind = "stat")
         => /\ sumTroops(pasted.troops[1]) = 0
            /\ pasted.finalMarchSize = <<parseIntLoose(pasted.marchSize)>>
====
